---- MODULE Spec2Model ----
(***************************************************************************)
(* Model of the swap-sphere matching engine: the cascading skill           *)
(* similarity scorer (semantic.service.ts), the location scorer            *)
(* (location.service.ts) and the MatchingEngine (core/matching.engine.ts). *)
(* Numbers are exact rationals <<n, d>> (d > 0, lowest terms); strings are *)
(* sequences of one-character strings.                                     *)
(***************************************************************************)
EXTENDS Integers, Sequences, FiniteSets, TLC

\* ------------------------------------------------------------------------
\* Bounds of the model
\* ------------------------------------------------------------------------
MaxTokens == 3

MaxSkills == 2

MaxCandidates == 3

NumSeeds == 2

NumCallers == 3

NumHandlers == 2

MaxExchanges == 2

MaxRequests == 8

NumTogglers == 2

MaxToggles == 4

NumPseudonyms == 2

\* ------------------------------------------------------------------------
\* Numbers (JavaScript number, modelled as exact rationals)
\* ------------------------------------------------------------------------
Abs(x) == IF x < 0 THEN -x ELSE x

RECURSIVE GCD(_, _)
GCD(a, b) == IF b = 0 THEN a ELSE GCD(b, a % b)

Rat(n, d) == LET g == GCD(Abs(n), d) IN <<n \div g, d \div g>>

R0 == <<0, 1>>

R1 == <<1, 1>>

RAdd(a, b) ==
  LET l == (a[2] \div GCD(a[2], b[2])) * b[2]
  IN Rat(a[1] * (l \div a[2]) + b[1] * (l \div b[2]), l)

RMul(a, b) ==
  LET g1 == GCD(Abs(a[1]), b[2])
      g2 == GCD(Abs(b[1]), a[2])
      h1 == IF g1 = 0 THEN 1 ELSE g1
      h2 == IF g2 = 0 THEN 1 ELSE g2
  IN Rat((a[1] \div h1) * (b[1] \div h2), (a[2] \div h2) * (b[2] \div h1))

RDivInt(a, k) == RMul(a, <<1, k>>)

RLt(a, b) == a[1] * b[2] < b[1] * a[2]

RLe(a, b) == a[1] * b[2] <= b[1] * a[2]

RGe(a, b) == RLe(b, a)

RGt(a, b) == RLt(b, a)

RMax(a, b) == IF RLt(a, b) THEN b ELSE a

RMin(a, b) == IF RLt(b, a) THEN b ELSE a

Clamp01(x) == RMax(R0, RMin(R1, x))

In01(x) == RLe(R0, x) /\ RLe(x, R1)

\* square root of a rational that is a perfect square (vector norms)
RSqrt(a) ==
  <<CHOOSE r \in 0..a[1] : r * r = a[1], CHOOSE r \in 1..a[2] : r * r = a[2]>>

RECURSIVE RSum(_)
RSum(s) == IF s = <<>> THEN R0 ELSE RAdd(Head(s), RSum(Tail(s)))

RECURSIVE RMaxOf(_)
RMaxOf(s) == IF Len(s) = 1 THEN s[1] ELSE RMax(s[1], RMaxOf(Tail(s)))

\* ------------------------------------------------------------------------
\* Strings (String.prototype.trim / toLowerCase / includes / split)
\* ------------------------------------------------------------------------
Alphabet == <<" ", "-", "_", "/", "a", "b", "c", "d", "e", "g", "i", "j", "m",
              "n", "p", "r", "s", "t", "v", "x", "y", "A", "B", "C", "J", "P", "S", "Y">>

CharCode(c) == CHOOSE i \in 1..Len(Alphabet) : Alphabet[i] = c

ToLowerChar(c) ==
  CASE c = "A" -> "a" [] c = "B" -> "b" [] c = "C" -> "c" [] c = "J" -> "j"
    [] c = "P" -> "p" [] c = "S" -> "s" [] c = "Y" -> "y" [] OTHER -> c

ToUpperChar(c) ==
  CASE c = "a" -> "A" [] c = "b" -> "B" [] c = "c" -> "C" [] c = "j" -> "J"
    [] c = "p" -> "P" [] c = "s" -> "S" [] c = "y" -> "Y" [] OTHER -> c

ToLowerCase(s) == [i \in 1..Len(s) |-> ToLowerChar(s[i])]

IsSpace(c) == c = " "

RECURSIVE TrimStart(_)
TrimStart(s) == IF s # <<>> /\ IsSpace(Head(s)) THEN TrimStart(Tail(s)) ELSE s

RECURSIVE TrimEnd(_)
TrimEnd(s) ==
  IF s # <<>> /\ IsSpace(s[Len(s)]) THEN TrimEnd(SubSeq(s, 1, Len(s) - 1)) ELSE s

\* the name compared as written, surrounding blanks kept
TrimNothing(s) == s

Trim(s) == TrimEnd(TrimStart(s))

\* a.includes(b)
Includes(a, b) ==
  \E i \in 1..(Len(a) - Len(b) + 1) : SubSeq(a, i, i + Len(b) - 1) = b

IsSeparator(c) == c \in {" ", "-", "_", "/"}

\* s.split(/[\s\-_\/]+/).filter(w => w.length > 0)
RECURSIVE SplitWords(_, _)
SplitWords(s, cur) ==
  IF s = <<>> THEN (IF cur = <<>> THEN <<>> ELSE <<cur>>)
  ELSE IF IsSeparator(Head(s))
       THEN (IF cur = <<>> THEN <<>> ELSE <<cur>>) \o SplitWords(Tail(s), <<>>)
       ELSE SplitWords(Tail(s), Append(cur, Head(s)))

Words(s) == SplitWords(s, <<>>)

SeqToSet(s) == {s[i] : i \in 1..Len(s)}

\* parts.join(' ')
RECURSIVE JoinWith(_, _)
JoinWith(parts, sep) ==
  IF parts = <<>> THEN <<>>
  ELSE IF Len(parts) = 1 THEN parts[1]
  ELSE parts[1] \o sep \o JoinWith(Tail(parts), sep)

\* ------------------------------------------------------------------------
\* Skills
\* ------------------------------------------------------------------------
Levels == {"beginner", "intermediate", "advanced", "expert"}

LevelText(level) ==
  CASE level = "beginner" -> <<"b", "e", "g", "i", "n", "n", "e", "r">>
    [] level = "intermediate" -> <<"i", "n", "t", "e", "r", "m", "e", "d", "i", "a", "t", "e">>
    [] level = "advanced" -> <<"a", "d", "v", "a", "n", "c", "e", "d">>
    [] OTHER -> <<"e", "x", "p", "e", "r", "t">>

\* a Skill; hasName = FALSE is a malformed entry whose name is undefined
Skill(name, level) ==
  [name |-> name, hasName |-> TRUE, level |-> level, description |-> <<>>, category |-> <<>>]

NamelessSkill(level) ==
  [name |-> <<>>, hasName |-> FALSE, level |-> level, description |-> <<>>, category |-> <<>>]

\* ------------------------------------------------------------------------
\* SemanticService (services/semantic.service.ts)
\* ------------------------------------------------------------------------
Null == "null"

Handle == "pipeline"

\* the embedding provider's state as one call sees it: the memoized handle,
\* whether the provider answers (constructor and inference succeed), and
\* which text -> vector function the loaded model computes
ProviderEnv(pipeline, up, seed) == [pipeline |-> pipeline, up |-> up, seed |-> seed]

Seeds == 0..(NumSeeds - 1)

\* SemanticService.skillToText
SkillToText(skill) ==
  ToLowerCase(JoinWith(<<skill.name>>
                       \o (IF skill.description # <<>> THEN <<skill.description>> ELSE <<>>)
                       \o (IF skill.category # <<>> THEN <<skill.category>> ELSE <<>>)
                       \o <<LevelText(skill.level)>>, <<" ">>))

\* unit vectors the black-box model may return (normalize: true)
Vecs ==
  << <<R1, R0>>, <<R0, R1>>, << <<-1, 1>>, R0 >>,
     << <<3, 5>>, <<4, 5>> >>, << <<4, 5>>, <<3, 5>> >> >>

RECURSIVE TextHash(_)
TextHash(text) == IF text = <<>> THEN 0 ELSE (CharCode(Head(text)) + 3 * TextHash(Tail(text))) % 1009

\* this.embeddingPipeline(text, {pooling, normalize}): one deterministic
\* text -> vector function per seed
Embed(text, seed) == Vecs[((TextHash(text) * (seed + 1) + seed) % Len(Vecs)) + 1]

\* getEmbedding with its failures swallowed: a zero-information vector is
\* returned instead of throwing
GetEmbeddingWithoutThrow(text, env) ==
  IF env.up THEN [ok |-> TRUE, v |-> Embed(text, env.seed)] ELSE [ok |-> TRUE, v |-> Vecs[1]]

\* SemanticService.getEmbedding: a missing handle triggers initialize();
\* any failure is thrown to the caller
GetEmbedding(text, env) ==
  LET afterInit == IF env.pipeline = Null
                   THEN (IF env.up THEN Handle ELSE Null)
                   ELSE env.pipeline
  IN IF afterInit = Null THEN [ok |-> FALSE, v |-> Vecs[1]]
     ELSE IF ~env.up THEN [ok |-> FALSE, v |-> Vecs[1]]
     ELSE [ok |-> TRUE, v |-> Embed(text, env.seed)]

\* SemanticService.cosineSimilarity
CosineSimilarity(vecA, vecB) ==
  LET idx == 1..Len(vecA)
      dotProduct == RSum([i \in idx |-> RMul(vecA[i], vecB[i])])
      normA == RSum([i \in idx |-> RMul(vecA[i], vecA[i])])
      normB == RSum([i \in idx |-> RMul(vecB[i], vecB[i])])
      denominator == RMul(RSqrt(normA), RSqrt(normB))
  IN IF denominator = R0 THEN R0
     ELSE Rat(dotProduct[1] * denominator[2], dotProduct[2] * denominator[1])

\* wordsA.filter(word => wordsB.includes(word)).length
RECURSIVE CountCommon(_, _)
CountCommon(wordsA, wordsB) ==
  IF wordsA = <<>> THEN 0
  ELSE (IF Head(wordsA) \in SeqToSet(wordsB) THEN 1 ELSE 0) + CountCommon(Tail(wordsA), wordsB)

\* SemanticService.fallbackSimilarity
FallbackSimilarity(skillA, skillB) ==
  LET Overlap(intersection, similarity) ==
        IF intersection > 0
        THEN (IF RGt(similarity, <<1, 2>>)
              THEN [score |-> RMul(similarity, <<4, 5>>), stage |-> "fallback-overlap"]
              ELSE [score |-> RMul(similarity, <<1, 2>>), stage |-> "fallback-weak"])
        ELSE [score |-> R0, stage |-> "fallback-none"]
      WordOverlap(wordsA, wordsB) ==
        Overlap(CountCommon(wordsA, wordsB),
                Rat(CountCommon(wordsA, wordsB),
                    Cardinality(SeqToSet(wordsA) \cup SeqToSet(wordsB))))
      Compare(nameA, nameB) ==
        LET shorter == IF Len(nameA) < Len(nameB) THEN nameA ELSE nameB
            longer == IF Len(nameA) >= Len(nameB) THEN nameA ELSE nameB
        IN IF nameA = nameB THEN [score |-> R1, stage |-> "fallback-exact"]
           ELSE IF Includes(nameA, nameB) \/ Includes(nameB, nameA)
           THEN (IF RGt(Rat(Len(shorter), Len(longer)), <<4, 5>>)
                 THEN [score |-> <<9, 10>>, stage |-> "fallback-strong"]
                 ELSE [score |-> <<7, 10>>, stage |-> "fallback-containment"])
           ELSE WordOverlap(Words(nameA), Words(nameB))
  IN Compare(ToLowerCase(Trim(skillA.name)), ToLowerCase(Trim(skillB.name)))

\* SemanticService.calculateSkillSimilarity; threw = a TypeError escaped
\* (name.trim() on a skill without a name), called = the embedding
\* provider was asked
CalculateSkillSimilarity(skillA, skillB, env) ==
  IF ~skillA.hasName \/ ~skillB.hasName
  THEN [threw |-> TRUE, score |-> R0, stage |-> "throw", called |-> FALSE]
  ELSE
  LET Embedded(embeddingA, embeddingB, fb) ==
        IF embeddingA.ok /\ embeddingB.ok
        THEN [threw |-> FALSE,
              score |-> Clamp01(CosineSimilarity(embeddingA.v, embeddingB.v)),
              stage |-> "embedding", called |-> TRUE]
        ELSE [threw |-> FALSE, score |-> fb.score, stage |-> fb.stage, called |-> TRUE]
      Compare(nameA, nameB) ==
        LET lenMin == IF Len(nameA) < Len(nameB) THEN Len(nameA) ELSE Len(nameB)
            lenMax == IF Len(nameA) < Len(nameB) THEN Len(nameB) ELSE Len(nameA)
            contained == Includes(nameA, nameB) \/ Includes(nameB, nameA)
            ratio == Rat(lenMin, lenMax)
        IN IF nameA = nameB
           THEN [threw |-> FALSE, score |-> R1, stage |-> "exact", called |-> FALSE]
           ELSE IF contained /\ RGt(ratio, <<4, 5>>)
           THEN [threw |-> FALSE, score |-> RMin(<<19, 20>>, ratio),
                 stage |-> "containment", called |-> FALSE]
           ELSE Embedded(GetEmbedding(SkillToText(skillA), env),
                         GetEmbedding(SkillToText(skillB), env),
                         FallbackSimilarity(skillA, skillB))
  IN Compare(ToLowerCase(Trim(skillA.name)), ToLowerCase(Trim(skillB.name)))

\* SemanticService.findBestMatch: linear scan keeping the first highest score;
\* index is the position of the chosen candidate skill
RECURSIVE BestMatchScan(_, _, _, _, _)
BestMatchScan(targetSkill, candidateSkills, i, best, env) ==
  IF i > Len(candidateSkills) THEN best
  ELSE LET Step(result) ==
             IF result.threw
             THEN [best EXCEPT !.threw = TRUE, !.called = best.called \/ result.called]
             ELSE BestMatchScan(targetSkill, candidateSkills, i + 1,
                    IF RGt(result.score, best.bestScore)
                    THEN [threw |-> FALSE, found |-> TRUE, index |-> i,
                          similarity |-> result.score, bestScore |-> result.score,
                          called |-> best.called \/ result.called]
                    ELSE [best EXCEPT !.called = best.called \/ result.called], env)
       IN Step(CalculateSkillSimilarity(targetSkill, candidateSkills[i], env))

FindBestMatch(targetSkill, candidateSkills, env) ==
  BestMatchScan(targetSkill, candidateSkills, 1,
    [threw |-> FALSE, found |-> FALSE, index |-> 0, similarity |-> R0,
     bestScore |-> <<-1, 1>>, called |-> FALSE], env)

\* ------------------------------------------------------------------------
\* LocationService (services/location.service.ts)
\* ------------------------------------------------------------------------
\* optional fields: def = FALSE is undefined
Undef == [def |-> FALSE, v |-> <<>>]

Str(s) == [def |-> TRUE, v |-> s]

NoCoord == [def |-> FALSE, v |-> 0]

Coord(x) == [def |-> TRUE, v |-> x]

NoLocation ==
  [present |-> FALSE, city |-> Undef, country |-> Undef, latitude |-> NoCoord,
   longitude |-> NoCoord]

Location(city, country, lat, lon) ==
  [present |-> TRUE, city |-> city, country |-> country, latitude |-> lat, longitude |-> lon]

\* x?.toLowerCase().trim()
NormOpt(x) == IF x.def THEN [def |-> TRUE, v |-> Trim(ToLowerCase(x.v))] ELSE Undef

\* truthiness of an optional number: undefined and 0 are falsy
Truthy(c) == c.def /\ c.v # 0

\* LocationService.calculateDistance (haversine, R = 6371 km), in whole km,
\* for the inputs on which the formula reduces to an arc of a great circle:
\* two points on one meridian, or two points on the equator; coordinates
\* are whole degrees
CalculateDistance(lat1, lon1, lat2, lon2) ==
  LET dLat == Abs(lat2 - lat1)
      dLonRaw == Abs(lon2 - lon1)
      dLon == IF dLonRaw > 180 THEN 360 - dLonRaw ELSE dLonRaw
      degrees == IF lon1 = lon2 THEN dLat ELSE dLon
  IN (degrees * 111195) \div 1000

\* the neutral score given only when both locations are missing
CalculateLocationSimilarityBothMissing(userA, userB) ==
  IF ~userA.location.present /\ ~userB.location.present
  THEN [score |-> <<1, 2>>, hasDistance |-> FALSE, distance |-> 0,
        sameCity |-> FALSE, sameCountry |-> FALSE]
  ELSE [score |-> <<1, 5>>, hasDistance |-> FALSE, distance |-> 0,
        sameCity |-> FALSE, sameCountry |-> FALSE]

\* LocationService.calculateLocationSimilarity
CalculateLocationSimilarity(userA, userB) ==
  IF ~userA.location.present \/ ~userB.location.present
  THEN [score |-> <<1, 2>>, hasDistance |-> FALSE, distance |-> 0,
        sameCity |-> FALSE, sameCountry |-> FALSE]
  ELSE
  LET locA == userA.location
      locB == userB.location
      sameCity == NormOpt(locA.city) = NormOpt(locB.city)
                  /\ NormOpt(locA.country) = NormOpt(locB.country)
      sameCountry == NormOpt(locA.country) = NormOpt(locB.country) /\ ~sameCity
      hasDistance == Truthy(locA.latitude) /\ Truthy(locA.longitude)
                     /\ Truthy(locB.latitude) /\ Truthy(locB.longitude)
      distance == IF hasDistance
                  THEN CalculateDistance(locA.latitude.v, locA.longitude.v,
                                         locB.latitude.v, locB.longitude.v)
                  ELSE 0
      score == IF sameCity THEN R1
               ELSE IF sameCountry THEN <<7, 10>>
               ELSE IF hasDistance
               THEN (IF distance < 100 THEN <<9, 10>>
                     ELSE IF distance < 500 THEN <<7, 10>>
                     ELSE IF distance < 2000 THEN <<1, 2>>
                     ELSE IF distance < 5000 THEN <<3, 10>>
                     ELSE <<1, 10>>)
               ELSE <<1, 5>>
  IN [score |-> Clamp01(score), hasDistance |-> hasDistance, distance |-> distance,
      sameCity |-> sameCity, sameCountry |-> sameCountry]

\* ------------------------------------------------------------------------
\* LanguageService / TrustService (contract of spec section 4.3)
\* ------------------------------------------------------------------------
\* set overlap of the spoken languages, neutral 0.5 on insufficient data
CalculateLanguageSimilarity(userA, userB) ==
  IF userA.languages = {} \/ userB.languages = {}
  THEN [score |-> <<1, 2>>]
  ELSE [score |-> Rat(Cardinality(userA.languages \cap userB.languages),
                      Cardinality(userA.languages \cup userB.languages))]

\* pass-through of the candidate's stored trust value
CalculateTrustScore(userA, userB) == [score |-> Clamp01(userB.trustScore)]

\* ------------------------------------------------------------------------
\* MatchingEngine (core/matching.engine.ts)
\* ------------------------------------------------------------------------
\* MatchingEngine.getLevelWeight
GetLevelWeight(level) ==
  CASE level = "beginner" -> <<1, 2>>
    [] level = "intermediate" -> <<3, 4>>
    [] level = "advanced" -> <<9, 10>>
    [] level = "expert" -> R1
    [] OTHER -> <<1, 2>>

\* scores.some(s => s >= 0.99) over the level-weighted scores
HasExactMatch(scores) == \E i \in 1..Len(scores) : RGe(scores[i], <<99, 100>>)

\* the directional aggregate with the neutral 0.5 for an empty list
CalculateSemanticScoreAtoBNeutralOnEmpty(userA, userB, env) ==
  [threw |-> FALSE, v |-> <<1, 2>>, called |-> FALSE]

\* MatchingEngine.calculateSemanticScoreAtoB; threw = an exception escaped
CalculateSemanticScoreAtoB(userA, userB, env) ==
  IF Len(userA.offers) = 0 \/ Len(userB.wants) = 0
  THEN [threw |-> FALSE, v |-> R0, called |-> FALSE]
  ELSE
  LET n == Len(userA.offers)
      FinalScore(scores, average, max) ==
        IF HasExactMatch(scores)
        THEN RAdd(RMul(max, <<4, 5>>), RMul(average, <<1, 5>>))
        ELSE RAdd(RMul(average, <<7, 10>>), RMul(max, <<3, 10>>))
      Combine(scores) == FinalScore(scores, RDivInt(RSum(scores), n), RMaxOf(scores))
      Aggregate(bestMatch) ==
        IF \E i \in 1..n : bestMatch[i].threw
        THEN [threw |-> TRUE, v |-> R0, called |-> \E i \in 1..n : bestMatch[i].called]
        ELSE [threw |-> FALSE,
              v |-> Combine([i \in 1..n |->
                      RMul(bestMatch[i].similarity, GetLevelWeight(userA.offers[i].level))]),
              called |-> \E i \in 1..n : bestMatch[i].called]
  IN Aggregate([i \in 1..n |-> FindBestMatch(userA.offers[i], userB.wants, env)])

\* MatchingEngine.calculateSemanticScoreBtoA
CalculateSemanticScoreBtoA(userA, userB, env) == CalculateSemanticScoreAtoB(userB, userA, env)

\* a weight as it arrives in the request body: a number, or a numeric string
\* (isNumber = FALSE) that * coerces and toFixed rejects
Num(v) == [v |-> v, isNumber |-> TRUE]

NumStr(v) == [v |-> v, isNumber |-> FALSE]

Weights(w1, w2, w3, w4, w5) == [w1 |-> w1, w2 |-> w2, w3 |-> w3, w4 |-> w4, w5 |-> w5]

\* every weight is a number (so the toFixed calls of the log line succeed)
WellTyped(weights) ==
  /\ weights.w1.isNumber /\ weights.w2.isNumber /\ weights.w3.isNumber
  /\ weights.w4.isNumber /\ weights.w5.isNumber

\* the weighted sum of lines 224-229
WeightedSum(weights, sAB, sBA, loc, lang, trust) ==
  RSum(<<RMul(weights.w1.v, sAB), RMul(weights.w2.v, sBA), RMul(weights.w3.v, loc),
         RMul(weights.w4.v, lang), RMul(weights.w5.v, trust)>>)

\* the boost chain with the two bidirectional rules merged into the 0.7 floor
BoostWithoutPerfectRule(totalScore, sAB, sBA) ==
  LET hasStrongSemanticMatch == RGe(sAB, <<4, 5>>) /\ RGe(sBA, <<4, 5>>)
      hasAnyPerfectMatch == RGe(sAB, <<19, 20>>) \/ RGe(sBA, <<19, 20>>)
      hasAnyStrongMatch == RGe(sAB, <<4, 5>>) \/ RGe(sBA, <<4, 5>>)
      hasAnyMatch == RGt(sAB, R0) \/ RGt(sBA, R0)
  IN IF hasStrongSemanticMatch THEN RMax(totalScore, <<7, 10>>)
     ELSE IF hasAnyPerfectMatch THEN RMax(totalScore, <<3, 5>>)
     ELSE IF hasAnyStrongMatch THEN RMax(totalScore, <<1, 2>>)
     ELSE IF hasAnyMatch THEN RMax(totalScore, <<3, 10>>)
     ELSE totalScore

\* the boost chain reduced to its last rule: the 0.3 floor for any match
BoostAnyMatchOnly(totalScore, sAB, sBA) ==
  IF RGt(sAB, R0) \/ RGt(sBA, R0) THEN RMax(totalScore, <<3, 10>>) ELSE totalScore

\* the 0.3 floor applied to weak matches only, and no floor for strong ones
BoostWeakOnly(totalScore, sAB, sBA) ==
  IF (RGt(sAB, R0) \/ RGt(sBA, R0)) /\ ~(RGe(sAB, <<4, 5>>) \/ RGe(sBA, <<4, 5>>))
  THEN RMax(totalScore, <<3, 10>>)
  ELSE totalScore

\* the boost chain of lines 232-252
Boost(totalScore, sAB, sBA) ==
  LET hasPerfectSemanticMatch == RGe(sAB, <<19, 20>>) /\ RGe(sBA, <<19, 20>>)
      hasStrongSemanticMatch == RGe(sAB, <<4, 5>>) /\ RGe(sBA, <<4, 5>>)
      hasAnyPerfectMatch == RGe(sAB, <<19, 20>>) \/ RGe(sBA, <<19, 20>>)
      hasAnyStrongMatch == RGe(sAB, <<4, 5>>) \/ RGe(sBA, <<4, 5>>)
      hasAnyMatch == RGt(sAB, R0) \/ RGt(sBA, R0)
  IN IF hasPerfectSemanticMatch THEN RMax(totalScore, <<4, 5>>)
     ELSE IF hasStrongSemanticMatch THEN RMax(totalScore, <<7, 10>>)
     ELSE IF hasAnyPerfectMatch THEN RMax(totalScore, <<3, 5>>)
     ELSE IF hasAnyStrongMatch THEN RMax(totalScore, <<1, 2>>)
     ELSE IF hasAnyMatch THEN RMax(totalScore, <<3, 10>>)
     ELSE totalScore

\* a component score returned as computed, without the clamp
UnclampedComponent(x) == x

\* the component scores as returned (lines 260-264)
ClampComponent(x) == Clamp01(x)

\* MatchingEngine.calculateMatchScore.  rawAtoB / rawBtoA are the directional
\* aggregates as computed (before the clamp of the returned record); path
\* tells the normal return from the catch block of line 273
CalculateMatchScore(userA, userB, weights, env) ==
  LET Result(semanticScoreAtoB, semanticScoreBtoA, locationScore, languageScore,
             trustScore, called) ==
        IF WellTyped(weights)
        THEN [threw |-> FALSE, path |-> "normal",
              totalScore |->
                Clamp01(Boost(WeightedSum(weights, semanticScoreAtoB, semanticScoreBtoA,
                                          locationScore, languageScore, trustScore),
                              semanticScoreAtoB, semanticScoreBtoA)),
              semanticScoreAtoB |-> ClampComponent(semanticScoreAtoB),
              semanticScoreBtoA |-> ClampComponent(semanticScoreBtoA),
              locationScore |-> ClampComponent(locationScore),
              languageScore |-> ClampComponent(languageScore),
              trustScore |-> ClampComponent(trustScore),
              rawAtoB |-> semanticScoreAtoB, rawBtoA |-> semanticScoreBtoA,
              called |-> called]
        ELSE [threw |-> FALSE, path |-> "fault",
              totalScore |-> R0, semanticScoreAtoB |-> R0, semanticScoreBtoA |-> R0,
              locationScore |-> <<1, 2>>, languageScore |-> <<1, 2>>,
              trustScore |-> <<1, 2>>,
              rawAtoB |-> semanticScoreAtoB, rawBtoA |-> semanticScoreBtoA,
              called |-> called]
      Signals(rAB, rBA) ==
        Result(IF rAB.threw THEN R0 ELSE rAB.v, IF rBA.threw THEN R0 ELSE rBA.v,
               CalculateLocationSimilarity(userA, userB).score,
               CalculateLanguageSimilarity(userA, userB).score,
               CalculateTrustScore(userA, userB).score,
               rAB.called \/ rBA.called)
  IN Signals(CalculateSemanticScoreAtoB(userA, userB, env),
             CalculateSemanticScoreBtoA(userA, userB, env))

\* MatchingEngine.validateBidirectionalMatch: no try/catch, an exception of
\* either aggregate escapes
ValidateBidirectionalMatch(userA, userB, minScore, env) ==
  LET Decide(scoreAtoB, scoreBtoA) ==
        IF scoreAtoB.threw \/ scoreBtoA.threw
        THEN [threw |-> TRUE, value |-> FALSE,
              called |-> scoreAtoB.called \/ scoreBtoA.called]
        ELSE [threw |-> FALSE,
              value |-> RGe(scoreAtoB.v, minScore) /\ RGe(scoreBtoA.v, minScore),
              called |-> scoreAtoB.called \/ scoreBtoA.called]
  IN Decide(CalculateSemanticScoreAtoB(userA, userB, env),
            CalculateSemanticScoreBtoA(userA, userB, env))

\* MatchingConfig: minMatchScore and maxResults are optional
Absent == [def |-> FALSE, v |-> 0]

Given(x) == [def |-> TRUE, v |-> x]

Config(w, minMatchScore, maxResults) ==
  [weights |-> w, minMatchScore |-> minMatchScore, maxResults |-> maxResults]

DefaultMaxResults == 50

\* config.minMatchScore ?? 0
MinScoreOf(config) == IF config.minMatchScore.def THEN config.minMatchScore.v ELSE R0

\* config.maxResults || 50, which also replaces an explicit 0
MaxResultsOr(config) ==
  IF config.maxResults.def /\ config.maxResults.v # 0
  THEN config.maxResults.v ELSE DefaultMaxResults

\* config.maxResults ?? 50
MaxResultsOf(config) ==
  IF config.maxResults.def THEN config.maxResults.v ELSE DefaultMaxResults

HasUnnamed(skills) == \E i \in 1..Len(skills) : ~skills[i].hasName

\* lines 83-99: the exact-match log lines call name.trim() on every skill of
\* both lists, outside the try block of line 110
EarlyCheckThrows(user, candidate) ==
  \/ /\ Len(user.offers) > 0 /\ Len(candidate.wants) > 0
     /\ (HasUnnamed(user.offers) \/ HasUnnamed(candidate.wants))
  \/ /\ Len(candidate.offers) > 0 /\ Len(user.wants) > 0
     /\ (HasUnnamed(candidate.offers) \/ HasUnnamed(user.wants))

\* the candidate loop with the self test deleted
RECURSIVE ScanCandidatesKeepingSelf(_, _, _, _, _, _, _)
ScanCandidatesKeepingSelf(user, candidates, i, matches, w, minScore, env) ==
  IF i > Len(candidates) THEN [threw |-> FALSE, matches |-> matches]
  ELSE LET Step(candidate, matchScore) ==
             IF EarlyCheckThrows(user, candidate)
             THEN [threw |-> TRUE, matches |-> <<>>]
             ELSE ScanCandidatesKeepingSelf(user, candidates, i + 1,
                    IF ~matchScore.threw /\ RGe(matchScore.totalScore, minScore)
                    THEN Append(matches, [index |-> i, userB |-> candidate.id,
                                          totalScore |-> matchScore.totalScore])
                    ELSE matches,
                    w, minScore, env)
       IN Step(candidates[i], CalculateMatchScore(user, candidates[i], w, env))

\* the candidate loop of lines 59-145; index is the candidate's position in
\* the input list
RECURSIVE ScanCandidates(_, _, _, _, _, _, _)
ScanCandidates(user, candidates, i, matches, w, minScore, env) ==
  IF i > Len(candidates) THEN [threw |-> FALSE, matches |-> matches]
  ELSE LET Step(candidate, matchScore) ==
             IF user.id # candidate.id /\ EarlyCheckThrows(user, candidate)
             THEN [threw |-> TRUE, matches |-> <<>>]
             ELSE ScanCandidates(user, candidates, i + 1,
                    IF user.id # candidate.id /\ ~matchScore.threw
                       /\ RGe(matchScore.totalScore, minScore)
                    THEN Append(matches, [index |-> i, userB |-> candidate.id,
                                          totalScore |-> matchScore.totalScore])
                    ELSE matches,
                    w, minScore, env)
       IN Step(candidates[i], CalculateMatchScore(user, candidates[i], w, env))

\* number of leading elements strictly above m: an element is placed before
\* those it ties with
RECURSIVE PrefixAbove(_, _)
PrefixAbove(sorted, m) ==
  IF sorted = <<>> \/ RLe(Head(sorted).totalScore, m.totalScore) THEN 0
  ELSE 1 + PrefixAbove(Tail(sorted), m)

\* number of leading elements of a descending list that the comparator
\* b.totalScore - a.totalScore does not place after m
RECURSIVE PrefixNotBelow(_, _)
PrefixNotBelow(sorted, m) ==
  IF sorted = <<>> \/ RLt(Head(sorted).totalScore, m.totalScore) THEN 0
  ELSE 1 + PrefixNotBelow(Tail(sorted), m)

\* Array.prototype.sort with (a, b) => b.totalScore - a.totalScore: a stable
\* sort, descending
RECURSIVE SortMatches(_)
SortMatches(matches) ==
  IF matches = <<>> THEN <<>>
  ELSE LET last == matches[Len(matches)]
           Insert(sorted, k) ==
             SubSeq(sorted, 1, k) \o <<last>> \o SubSeq(sorted, k + 1, Len(sorted))
           Place(sorted) == Insert(sorted, PrefixNotBelow(sorted, last))
       IN Place(SortMatches(SubSeq(matches, 1, Len(matches) - 1)))

\* matches.slice(0, maxResults) for maxResults >= 0
Slice(matches, maxResults) ==
  SubSeq(matches, 1, IF maxResults < Len(matches) THEN maxResults ELSE Len(matches))

\* MatchingEngine.findMatches; threw = the returned promise rejected
FindMatches(user, candidates, config, env) ==
  LET Finish(scan) ==
        IF scan.threw THEN [threw |-> TRUE, matches |-> <<>>]
        ELSE [threw |-> FALSE,
              matches |-> Slice(SortMatches(scan.matches), MaxResultsOf(config))]
  IN Finish(ScanCandidates(user, candidates, 1, <<>>, config.weights,
                           MinScoreOf(config), env))

\* ------------------------------------------------------------------------
\* State
\* ------------------------------------------------------------------------
VARIABLES
  embeddingPipeline,  \* SemanticService.embeddingPipeline: Null or Handle
  initialized,        \* SemanticService.initialized
  providerUp,         \* environment: the embedding provider answers
  modelSeed,          \* environment: which text -> vector function it computes
  skillA,             \* arguments of calculateSkillSimilarity
  skillB,
  simResult,          \* its result
  userA,              \* arguments of calculateMatchScore
  userB,
  weights,
  matchScore,         \* its result
  user,               \* arguments of findMatches: subject, candidate list, config
  candidates,
  config,
  findResult,         \* its result
  validateResult,     \* result of validateBidirectionalMatch
  initPc,             \* where each caller of initialize() stands
  pipelineCalls,      \* invocations of the pipeline(...) constructor
  pipelineWrites,     \* assignments to this.embeddingPipeline
  initFailures,       \* initialize() calls that threw
  locResult,          \* result of calculateLocationSimilarity(userA, userB)
  exchanges,          \* the exchanges collection: stored Exchange documents
  trust,              \* User.trustScore of each user
  handlers,           \* the exchange request handlers in flight
  served,             \* exchange requests received so far
  identity,           \* a user document and the public object built from it
  account,            \* the privacy fields of one stored user
  togglers,           \* the PATCH /toggle handlers in flight
  toggles,            \* toggle requests received so far
  signals             \* the five scorers' outcomes and the MatchScore built from them

serviceVars == <<embeddingPipeline, initialized, providerUp, modelSeed>>

simVars == <<skillA, skillB, simResult>>

scoreVars == <<userA, userB, weights, matchScore>>

findVars == <<user, candidates, config, findResult, validateResult>>

initVars == <<initPc, pipelineCalls, pipelineWrites, initFailures>>

locVars == <<locResult>>

exchangeVars == <<exchanges, trust, handlers, served>>

identityVars == <<identity>>

privacyVars == <<account, togglers, toggles>>

signalVars == <<signals>>

vars == <<serviceVars, simVars, scoreVars, findVars, initVars, locVars, exchangeVars, identityVars, privacyVars, signalVars>>

\* the provider environment a call observes in the current state
Env == ProviderEnv(embeddingPipeline, providerUp, modelSeed)

\* states of the singleton service and of the provider
ServiceInit ==
  /\ embeddingPipeline \in {Null, Handle}
  /\ initialized = (embeddingPipeline = Handle)
  /\ providerUp \in BOOLEAN
  /\ modelSeed \in (IF providerUp THEN Seeds ELSE {0})

\* the handle after a call that reached getEmbedding (called = TRUE)
PipelineAfter(called) ==
  IF called /\ providerUp THEN Handle ELSE embeddingPipeline

\* initialize() at lines 25-29 sets both fields together
ServiceAfter(called) ==
  /\ embeddingPipeline' = PipelineAfter(called)
  /\ initialized' = (initialized \/ (called /\ providerUp /\ embeddingPipeline = Null))
  /\ UNCHANGED <<providerUp, modelSeed>>

\* ------------------------------------------------------------------------
\* calculateSkillSimilarity applied to bounded skill names
\* ------------------------------------------------------------------------
Tokens == {<<"a">>, <<"a", "b">>, <<"c">>}

RECURSIVE TokenSeqs(_)
TokenSeqs(n) ==
  IF n = 0 THEN {<<>>}
  ELSE LET shorter == TokenSeqs(n - 1)
       IN shorter \cup {Append(ts, t) : ts \in {x \in shorter : Len(x) = n - 1}, t \in Tokens}

PlainNames == {JoinWith(ts, <<" ">>) : ts \in TokenSeqs(MaxTokens)}

HyphenNames == {JoinWith(ts, <<"-">>) : ts \in TokenSeqs(MaxTokens)}

\* the same names in upper case and padded with blanks
ShoutedNames ==
  {<<" ">> \o [i \in 1..Len(n) |-> ToUpperChar(n[i])] \o <<" ", " ">> : n \in PlainNames}

SimNamesA == PlainNames \cup HyphenNames \cup ShoutedNames

SimNamesB ==
  {<<>>, <<"a">>, <<"a", " ", "a">>, <<"a", " ", "c">>, <<"a", "b", " ", "a">>,
   <<"c", " ", "a", "b", " ", "a">>}

SimIdle == [done |-> FALSE, threw |-> FALSE, score |-> R0, stage |-> "none", called |-> FALSE]

SimUnused ==
  /\ skillA = Skill(<<>>, "expert")
  /\ skillB = Skill(<<>>, "beginner")
  /\ simResult = SimIdle

\* ------------------------------------------------------------------------
\* Profiles and weights
\* ------------------------------------------------------------------------
Profile(id, offers, wants, location, languages, trustScore) ==
  [id |-> id, offers |-> offers, wants |-> wants, location |-> location,
   languages |-> languages, trustScore |-> trustScore]

nJS == <<"J", "S">>

nJsPadded == <<" ", "j", "s", " ">>

nPy == <<"P", "y">>

npy == <<"p", "y">>

nAA == <<"a", "-", "a">>

nAsA == <<"a", " ", "a">>

cParis == Str(<<"P", "a", "r", "i", "s">>)

cParisLower == Str(<<"p", "a", "r", "i", "s", " ">>)

cFrance == Str(<<"f", "r">>)

DEFAULT_WEIGHTS ==
  Weights(Num(<<3, 10>>), Num(<<3, 10>>), Num(<<3, 20>>), Num(<<3, 20>>), Num(<<1, 10>>))

ZeroWeights == Weights(Num(R0), Num(R0), Num(R0), Num(R0), Num(R0))

HeavyWeights == Weights(Num(<<2, 1>>), Num(<<2, 1>>), Num(R1), Num(R1), Num(R1))

\* a request body whose w1 is the string "0.3"
StringWeights == [DEFAULT_WEIGHTS EXCEPT !.w1 = NumStr(<<3, 10>>)]

WeightVectors == {DEFAULT_WEIGHTS, ZeroWeights, HeavyWeights, StringWeights}

\* all sequences over S of length at most n
RECURSIVE SeqsUpTo(_, _)
SeqsUpTo(S, n) ==
  IF n = 0 THEN {<<>>}
  ELSE LET shorter == SeqsUpTo(S, n - 1)
       IN shorter \cup {Append(q, x) : q \in {y \in shorter : Len(y) = n - 1}, x \in S}

OfferPool == {Skill(nJS, l) : l \in Levels} \cup {Skill(nAA, "expert")}

\* one offered skill at any level, lists of up to MaxSkills skills, and a
\* malformed list whose entry has no name
SubjectOffers ==
  {<<s>> : s \in OfferPool}
  \cup SeqsUpTo({Skill(nJS, "beginner"), Skill(nAA, "expert")}, MaxSkills)
  \cup {<<NamelessSkill("expert")>>}

SubjectWants == {<<>>, <<Skill(npy, "beginner")>>}

PartnerOffers == {<<>>} \cup {<<Skill(nPy, l)>> : l \in Levels}

PartnerWants ==
  {<<>>, <<Skill(nJsPadded, "beginner")>>,
   <<Skill(nAsA, "beginner"), Skill(nJsPadded, "beginner")>>}

SubjectProfiles ==
  {Profile("u0", o, w, Location(cParis, cFrance, Coord(49), Coord(2)), {"en"}, <<1, 2>>) :
     o \in SubjectOffers, w \in SubjectWants}

PartnerProfiles ==
  {Profile("u1", o, w, NoLocation, {"en"}, <<1, 2>>) :
     o \in PartnerOffers, w \in PartnerWants}
  \cup {Profile("u1", <<Skill(nPy, "expert")>>, w,
                Location(cParisLower, cFrance, NoCoord, NoCoord), {"en", "fr"}, R1) :
          w \in PartnerWants}

ScoreIdle ==
  [done |-> FALSE, threw |-> FALSE, path |-> "none", totalScore |-> R0,
   semanticScoreAtoB |-> R0, semanticScoreBtoA |-> R0, locationScore |-> R0,
   languageScore |-> R0, trustScore |-> R0, rawAtoB |-> R0, rawBtoA |-> R0,
   called |-> FALSE]

\* the record a finished calculateMatchScore call leaves
ScoreDone(r) == [done |-> TRUE] @@ r

EmptyProfile == Profile("u0", <<>>, <<>>, NoLocation, {"en"}, <<1, 2>>)

ScoreUnused ==
  /\ userA = EmptyProfile
  /\ userB = EmptyProfile
  /\ weights = DEFAULT_WEIGHTS
  /\ matchScore = ScoreIdle

AbsentScore == [def |-> FALSE, v |-> R0]

FindIdle == [done |-> FALSE, threw |-> FALSE, matches |-> <<>>]

ValidateIdle == [done |-> FALSE, threw |-> FALSE, value |-> FALSE]

FindUnused ==
  /\ user = EmptyProfile
  /\ candidates = <<>>
  /\ config = Config(DEFAULT_WEIGHTS, AbsentScore, Absent)
  /\ findResult = FindIdle
  /\ validateResult = ValidateIdle

\* caller 0 is the server's startup (start() awaits it before app.listen);
\* callers 1..NumCallers are requests served afterwards
InitCallers == 0..NumCallers

InitCallsUnused ==
  /\ initPc = [c \in InitCallers |-> "idle"]
  /\ pipelineCalls = 0
  /\ pipelineWrites = 0
  /\ initFailures = 0

LocIdle ==
  [done |-> FALSE, score |-> R0, hasDistance |-> FALSE, distance |-> 0,
   sameCity |-> FALSE, sameCountry |-> FALSE]

LocUnused == locResult = LocIdle

\* ------------------------------------------------------------------------
\* Exchange documents and request handlers (routes/exchange.routes.ts)
\* ------------------------------------------------------------------------
\* the registered users
ExUsers == {"u1", "u2", "u3"}

Handlers == 1..NumHandlers

\* new Exchange({userA, userB, status: 'pending', ...}) with the schema
\* defaults; startedAt / completedAt: the date is set; a review is its
\* rating, 0 when absent
NewExchange(a, b) ==
  [userA |-> a, userB |-> b, status |-> "pending", startedAt |-> FALSE,
   completedAt |-> FALSE, userAConfirmed |-> FALSE, userBConfirmed |-> FALSE,
   userAReview |-> 0, userBReview |-> 0]

NoDoc == NewExchange("none", "none")

\* a handler that is not serving a request; code is the status of its last
\* response (0: none yet)
IdleHandler(code) ==
  [pc |-> "idle", kind |-> "none", userId |-> "none", ex |-> 0, doc |-> NoDoc,
   dirty |-> {}, code |-> code]

\* a handler between its read and its exchange.save()
BusyHandler(pc, kind, userId, ex, doc, dirty) ==
  [pc |-> pc, kind |-> kind, userId |-> userId, ex |-> ex, doc |-> doc,
   dirty |-> dirty, code |-> 0]

ExchangeUnused ==
  /\ exchanges = <<>>
  /\ trust = [u \in ExUsers |-> <<1, 2>>]
  /\ handlers = [h \in Handlers |-> IdleHandler(0)]
  /\ served = 0

\* ------------------------------------------------------------------------
\* Public user objects (utils/user.serializer.ts, routes/matching.routes.ts)
\* ------------------------------------------------------------------------
\* an optional boolean field
NoFlag == [def |-> FALSE, v |-> FALSE]

Flag(b) == [def |-> TRUE, v |-> b]

\* a stored user document: the identity fields
DbUser(name, username, email, isAnonymous, anonymousName) ==
  [name |-> name, username |-> username, email |-> email,
   isAnonymous |-> isAnonymous, anonymousName |-> anonymousName]

NoUser == DbUser(Undef, Undef, Undef, NoFlag, Undef)

\* a public user object: its name and its optional email
PublicUser(name, email) == [name |-> name, email |-> email]

IdentityIdle == [done |-> FALSE, kind |-> "none", user |-> NoUser, out |-> PublicUser(<<>>, Undef)]

IdentityUnused == identity = IdentityIdle

\* ------------------------------------------------------------------------
\* Anonymous mode of one user (routes/privacy.routes.ts)
\* ------------------------------------------------------------------------
\* the privacy fields of a user document; anonymousName 0 is "not set",
\* k > 0 is the k-th value generatePseudonym() can return
Account(isAnonymous, anonymousName) ==
  [isAnonymous |-> isAnonymous, anonymousName |-> anonymousName]

Togglers == 1..NumTogglers

Pseudonyms == 1..NumPseudonyms

\* a handler outside a request, and one between its findById and its save()
\* holding the document it will save and whether anonymousName is modified
IdleToggler == [pc |-> "idle", doc |-> Account(FALSE, 0), namePath |-> FALSE]

SavingToggler(doc, namePath) == [pc |-> "saving", doc |-> doc, namePath |-> namePath]

PrivacyUnused ==
  /\ account = Account(FALSE, 0)
  /\ togglers = [t \in Togglers |-> IdleToggler]
  /\ toggles = 0

\* ------------------------------------------------------------------------
\* calculateMatchScore from the outcomes of its five scorers
\* ------------------------------------------------------------------------
\* what a scorer call does: throws, returns a result without a score
\* (def = FALSE), or returns the score v
Outcome(threw, def, v) == [threw |-> threw, def |-> def, v |-> v]

Failed == Outcome(TRUE, FALSE, R0)

Scored(v) == Outcome(FALSE, TRUE, v)

NoScore == Outcome(FALSE, FALSE, R0)

SignalsIdle ==
  [done |-> FALSE, weights |-> DEFAULT_WEIGHTS, rAB |-> Failed, rBA |-> Failed,
   rLoc |-> Failed, rLang |-> Failed, rTrust |-> Failed,
   sAB |-> R0, sBA |-> R0, loc |-> R0, lang |-> R0, trust |-> R0, totalScore |-> R0]

SignalsUnused == signals = SignalsIdle

InitSim ==
  /\ ServiceInit
  /\ ScoreUnused
  /\ FindUnused
  /\ InitCallsUnused
  /\ SignalsUnused
  /\ PrivacyUnused
  /\ IdentityUnused
  /\ ExchangeUnused
  /\ LocUnused
  /\ skillA \in {Skill(n, "expert") : n \in SimNamesA}
  /\ skillB \in {Skill(n, "beginner") : n \in SimNamesB}
  /\ simResult = SimIdle

CalculateSkillSimilarityCall ==
  /\ ~simResult.done
  /\ \E r \in {CalculateSkillSimilarity(skillA, skillB, Env)} :
       /\ simResult' = [done |-> TRUE, threw |-> r.threw, score |-> r.score,
                        stage |-> r.stage, called |-> r.called]
       /\ ServiceAfter(r.called)
  /\ UNCHANGED <<skillA, skillB>>
  /\ UNCHANGED <<scoreVars, findVars, initVars, locVars, exchangeVars, identityVars, privacyVars, signalVars>>

NextSim == CalculateSkillSimilarityCall

SpecSim == InitSim /\ [][NextSim]_vars

\* C3: for all pairs of skill names, calculateSkillSimilarity returns a score
\* in [0,1], whichever stage (exact, containment, embedding, lexical
\* fallback) produced it.
C3_SimilarityInUnitInterval ==
  (simResult.done /\ ~simResult.threw) => In01(simResult.score)

\* a name without its leading and trailing blanks, in lower case, as the
\* claim states the normal form
RECURSIVE ClaimedNormalForm(_)
ClaimedNormalForm(s) ==
  IF s # <<>> /\ Head(s) = " " THEN ClaimedNormalForm(Tail(s))
  ELSE IF s # <<>> /\ s[Len(s)] = " " THEN ClaimedNormalForm(SubSeq(s, 1, Len(s) - 1))
  ELSE [i \in 1..Len(s) |-> ToLowerChar(s[i])]

\* the two names are equal after trim and lowercase
NamesEqualNormalised == ClaimedNormalForm(skillA.name) = ClaimedNormalForm(skillB.name)

\* the token set of a name: its normal form split on blanks, hyphens,
\* underscores and slashes
TokenSet(name) == SeqToSet(Words(ClaimedNormalForm(name)))

\* |T_A intersect T_B| / |T_A union T_B|
Jaccard(tA, tB) == Rat(Cardinality(tA \cap tB), Cardinality(tA \cup tB))

\* neither normal form contains the other
NeitherContains ==
  /\ ~Includes(ClaimedNormalForm(skillA.name), ClaimedNormalForm(skillB.name))
  /\ ~Includes(ClaimedNormalForm(skillB.name), ClaimedNormalForm(skillA.name))

\* C25: when the lexical fallback scores two names neither of which contains
\* the other, the score is 0.8*J if J > 0.5, 0.5*J if 0 < J <= 0.5 and 0 if
\* the names share no token, J being the Jaccard overlap of the token sets,
\* also when a name repeats a token.
C25_FallbackIsJaccard ==
  (simResult.done /\ ~simResult.threw /\ NeitherContains
     /\ simResult.stage \in {"fallback-overlap", "fallback-weak", "fallback-none"})
  => \A j \in {Jaccard(TokenSet(skillA.name), TokenSet(skillB.name))} :
       /\ RLe(simResult.score, IF RGt(j, <<1, 2>>) THEN RMul(j, <<4, 5>>) ELSE RMul(j, <<1, 2>>))
       /\ RGe(simResult.score, IF RGt(j, <<1, 2>>) THEN RMul(j, <<4, 5>>) ELSE RMul(j, <<1, 2>>))

\* the same skill with another level, description and category
SkillVariants(skill) ==
  {[skill EXCEPT !.level = l, !.description = d, !.category = c] :
     l \in Levels, d \in {<<>>, <<"x">>}, c \in {<<>>, <<"y">>}}

\* C16: for two skill names equal after trim and lowercase,
\* calculateSkillSimilarity returns exactly 1.0 without calling the embedding
\* provider, whatever the provider's state and whatever the skills' levels,
\* descriptions and categories.
C16_ExactMatchNeedsNoProvider ==
  (simResult.done /\ NamesEqualNormalised) =>
    /\ ~simResult.threw /\ simResult.score = R1 /\ ~simResult.called
    /\ \A a \in SkillVariants(skillA), b \in SkillVariants(skillB) :
         \A r \in {CalculateSkillSimilarity(a, b, Env)} :
           ~r.threw /\ r.score = R1 /\ ~r.called

\* C16 witness: names that differ in case and surrounding blanks, compared
\* while no handle exists and the provider is unavailable
C16_Witness ==
  /\ simResult.done /\ NamesEqualNormalised /\ skillA.name # skillB.name
  /\ Len(skillA.name) > Len(skillB.name) /\ Len(skillB.name) > 1
  /\ embeddingPipeline = Null /\ ~providerUp
  /\ simResult.score = R1 /\ ~simResult.called

\* ------------------------------------------------------------------------
\* calculateMatchScore applied to bounded profile pairs and weights
\* ------------------------------------------------------------------------
InitScore ==
  /\ ServiceInit
  /\ SimUnused
  /\ FindUnused
  /\ InitCallsUnused
  /\ SignalsUnused
  /\ PrivacyUnused
  /\ IdentityUnused
  /\ ExchangeUnused
  /\ LocUnused
  /\ userA \in SubjectProfiles
  /\ userB \in PartnerProfiles
  /\ weights \in WeightVectors
  /\ matchScore = ScoreIdle

CalculateMatchScoreCall ==
  /\ ~matchScore.done
  /\ \E r \in {CalculateMatchScore(userA, userB, weights, Env)} :
       /\ matchScore' = ScoreDone(r)
       /\ ServiceAfter(r.called)
  /\ UNCHANGED <<userA, userB, weights>>
  /\ UNCHANGED <<simVars, findVars, initVars, locVars, exchangeVars, identityVars, privacyVars, signalVars>>

NextScore == CalculateMatchScoreCall

SpecScore == InitScore /\ [][NextScore]_vars

\* C1: whenever calculateMatchScore computes SA->B >= 0.95 and SB->A >= 0.95,
\* the returned totalScore is >= 0.8, for every vector of non-negative
\* numeric weights (the all-zero vector included).
C1_BoostInvariant ==
  (matchScore.done /\ WellTyped(weights)
     /\ RGe(matchScore.rawAtoB, <<19, 20>>) /\ RGe(matchScore.rawBtoA, <<19, 20>>))
  => RGe(matchScore.totalScore, <<4, 5>>)

\* C1 witness: a perfect pair scored under all-zero weights, where only the
\* boost floor can produce the total
C1_Witness ==
  /\ matchScore.done /\ weights = ZeroWeights
  /\ RGe(matchScore.rawAtoB, <<19, 20>>) /\ RGe(matchScore.rawBtoA, <<19, 20>>)
  /\ matchScore.totalScore = <<4, 5>>

\* C2: every component score and totalScore of the returned MatchScore lies
\* in [0,1], for weights that need not sum to 1, on the normal path and on
\* the internal-fault path.
C2_ScoresInUnitInterval ==
  matchScore.done =>
    /\ In01(matchScore.totalScore)
    /\ In01(matchScore.semanticScoreAtoB)
    /\ In01(matchScore.semanticScoreBtoA)
    /\ In01(matchScore.locationScore)
    /\ In01(matchScore.languageScore)
    /\ In01(matchScore.trustScore)

\* C2 witness: a call whose directional aggregate exceeded 1 before the clamp
\* and whose weighted sum exceeded 1
C2_Witness ==
  /\ matchScore.done /\ matchScore.path = "normal" /\ weights = HeavyWeights
  /\ RGt(matchScore.rawAtoB, R1)
  /\ matchScore.semanticScoreAtoB = R1 /\ matchScore.totalScore = R1

\* the subject's single offer and the partner's single want have equal
\* names after trim and lowercase, and likewise in the other direction
PerfectPair(a, b) ==
  /\ Len(a.offers) = 1 /\ Len(b.wants) = 1 /\ Len(b.offers) = 1 /\ Len(a.wants) = 1
  /\ a.offers[1].hasName /\ b.wants[1].hasName /\ b.offers[1].hasName /\ a.wants[1].hasName
  /\ ToLowerCase(Trim(a.offers[1].name)) = ToLowerCase(Trim(b.wants[1].name))
  /\ ToLowerCase(Trim(b.offers[1].name)) = ToLowerCase(Trim(a.wants[1].name))

\* C4: for a pair whose offered and wanted skill names are equal both ways,
\* calculateMatchScore yields SA->B = 1.0, SB->A = 1.0 and totalScore >= 0.8
\* at every proficiency level of the offered skills.
C4_PerfectPairScores ==
  (matchScore.done /\ WellTyped(weights) /\ PerfectPair(userA, userB))
  => /\ matchScore.rawAtoB = R1
     /\ matchScore.rawBtoA = R1
     /\ RGe(matchScore.totalScore, <<4, 5>>)

\* SA->B has an empty side: userA offers nothing or userB wants nothing
EmptyAtoB == Len(userA.offers) = 0 \/ Len(userB.wants) = 0

\* SB->A has an empty side
EmptyBtoA == Len(userB.offers) = 0 \/ Len(userA.wants) = 0

\* the level weights as the claim lists them
ClaimedLevelWeight(level) ==
  CASE level = "beginner" -> <<1, 2>> [] level = "intermediate" -> <<3, 4>>
    [] level = "advanced" -> <<9, 10>> [] OTHER -> R1

\* the claimed aggregate over raw best-match similarities and offer levels:
\* the 0.8 / 0.2 mix when some raw similarity is >= 0.99, else 0.7 / 0.3
ClaimedAggregate(raw, levels) ==
  LET n == Len(raw)
      s == [i \in 1..n |-> RMul(raw[i], ClaimedLevelWeight(levels[i]))]
      mean == RDivInt(RSum(s), n)
  IN IF \E i \in 1..n : RGe(raw[i], <<99, 100>>)
     THEN RAdd(RMul(<<4, 5>>, RMaxOf(s)), RMul(<<1, 5>>, mean))
     ELSE RAdd(RMul(<<7, 10>>, mean), RMul(<<3, 10>>, RMaxOf(s)))

\* C23: whenever calculateMatchScore computes SA->B from at least one offer
\* and one want without a failure, SA->B is 0.8*max(s) + 0.2*mean(s) if some
\* offer's raw best-match similarity is >= 0.99 and 0.7*mean(s) + 0.3*max(s)
\* otherwise, s being the level-weighted best-match similarities.
C23_AggregateByRawExactMatch ==
  [][(~matchScore.done /\ matchScore'.done /\ ~EmptyAtoB
        /\ \A i \in 1..Len(userA.offers) : ~FindBestMatch(userA.offers[i], userB.wants, Env).threw)
     => RLe(matchScore'.rawAtoB,
            ClaimedAggregate([i \in 1..Len(userA.offers) |->
                                FindBestMatch(userA.offers[i], userB.wants, Env).similarity],
                             [i \in 1..Len(userA.offers) |-> userA.offers[i].level]))
        /\ RGe(matchScore'.rawAtoB,
               ClaimedAggregate([i \in 1..Len(userA.offers) |->
                                   FindBestMatch(userA.offers[i], userB.wants, Env).similarity],
                                [i \in 1..Len(userA.offers) |-> userA.offers[i].level]))]_vars

\* C15: the directional aggregate is exactly 0 when the offering profile has
\* no offers or the other profile has no wants, and calculateMatchScore still
\* computes the location, language and trust signals and the total from them.
C15_EmptyListsScoreZero ==
  (matchScore.done /\ (EmptyAtoB \/ EmptyBtoA)) =>
    /\ ~matchScore.threw
    /\ EmptyAtoB => matchScore.rawAtoB = R0
    /\ EmptyBtoA => matchScore.rawBtoA = R0
    /\ WellTyped(weights) =>
         /\ matchScore.path = "normal"
         /\ matchScore.locationScore = CalculateLocationSimilarity(userA, userB).score
         /\ matchScore.languageScore = CalculateLanguageSimilarity(userA, userB).score
         /\ matchScore.trustScore = CalculateTrustScore(userA, userB).score
         /\ matchScore.totalScore =
              Clamp01(Boost(WeightedSum(weights, matchScore.rawAtoB, matchScore.rawBtoA,
                                        matchScore.locationScore, matchScore.languageScore,
                                        matchScore.trustScore),
                            matchScore.rawAtoB, matchScore.rawBtoA))

\* C15 witness: the subject offers nothing while the candidate wants a skill;
\* the other direction matches and the total is positive
C15_Witness ==
  /\ matchScore.done /\ matchScore.path = "normal"
  /\ Len(userA.offers) = 0 /\ Len(userB.wants) > 0
  /\ matchScore.rawAtoB = R0 /\ RGt(matchScore.rawBtoA, R0)
  /\ RGt(matchScore.locationScore, R0) /\ RGt(matchScore.totalScore, R0)

\* ------------------------------------------------------------------------
\* The engine's entry points applied to bounded candidate lists
\* ------------------------------------------------------------------------
Subject ==
  Profile("u0", <<Skill(nJS, "expert")>>, <<Skill(npy, "beginner")>>, NoLocation, {"en"},
          <<1, 2>>)

\* a subject without skills: only location, language and trust contribute
BareSubject == Profile("u0", <<>>, <<>>, NoLocation, {"en"}, <<1, 2>>)

Candidate(id, offers, wants) == Profile(id, offers, wants, NoLocation, {"en"}, <<1, 2>>)

cPerfect1 == Candidate("u1", <<Skill(nPy, "expert")>>, <<Skill(nJsPadded, "beginner")>>)

cPerfect2 == Candidate("u2", <<Skill(nPy, "expert")>>, <<Skill(nJsPadded, "beginner")>>)

cOneWay == Candidate("u3", <<>>, <<Skill(nJsPadded, "beginner")>>)

cNoSkills == Candidate("u4", <<>>, <<>>)

\* a candidate record carrying the subject's own id
cSelf == Candidate("u0", <<Skill(nPy, "expert")>>, <<Skill(nJsPadded, "beginner")>>)

\* a malformed candidate: its wanted skill has no name
cMalformed == Candidate("u5", <<Skill(nPy, "expert")>>, <<NamelessSkill("beginner")>>)

CandidatePool == {cPerfect1, cPerfect2, cOneWay, cNoSkills, cSelf}

CandidateLists ==
  SeqsUpTo(CandidatePool, MaxCandidates)
  \cup {<<cMalformed>>, <<cPerfect1, cMalformed>>, <<cMalformed, cPerfect1>>,
        <<cOneWay, cMalformed, cPerfect1>>}

Configs ==
  {Config(DEFAULT_WEIGHTS, m, r) :
     m \in {AbsentScore, Given(<<7, 10>>)},
     r \in {Absent, Given(0), Given(1), Given(2)}}

\* a freshly started process: nothing memoized yet
ServiceFresh ==
  /\ embeddingPipeline = Null
  /\ initialized = FALSE
  /\ providerUp \in BOOLEAN
  /\ modelSeed = 0

InitFind ==
  /\ ServiceFresh
  /\ SimUnused
  /\ ScoreUnused
  /\ InitCallsUnused
  /\ SignalsUnused
  /\ PrivacyUnused
  /\ IdentityUnused
  /\ ExchangeUnused
  /\ LocUnused
  /\ user \in {Subject, BareSubject}
  /\ candidates \in CandidateLists
  /\ config \in Configs
  /\ findResult = FindIdle
  /\ validateResult = ValidateIdle

NoEntryYet == ~findResult.done /\ ~matchScore.done /\ ~validateResult.done

\* findMatches(user, candidates, config); line 49 calls initialize() first
FindMatchesCall ==
  /\ NoEntryYet
  /\ \E r \in {FindMatches(user, candidates, config, Env)} :
       findResult' = [done |-> TRUE, threw |-> r.threw, matches |-> r.matches]
  /\ ServiceAfter(TRUE)
  /\ UNCHANGED <<user, candidates, config, validateResult>>
  /\ UNCHANGED <<simVars, scoreVars, initVars, locVars, exchangeVars, identityVars, privacyVars, signalVars>>

\* calculateMatchScore(user, candidate, config.weights) called directly
CalculateMatchScoreEntry ==
  /\ NoEntryYet
  /\ \E i \in 1..Len(candidates) :
       \E r \in {CalculateMatchScore(user, candidates[i], config.weights, Env)} :
          /\ userA' = user
          /\ userB' = candidates[i]
          /\ weights' = config.weights
          /\ matchScore' = ScoreDone(r)
          /\ ServiceAfter(r.called)
  /\ UNCHANGED <<simVars, findVars, initVars, locVars, exchangeVars, identityVars, privacyVars, signalVars>>

\* validateBidirectionalMatch(user, candidate) with the default minScore 0.3
ValidateBidirectionalMatchCall ==
  /\ NoEntryYet
  /\ \E i \in 1..Len(candidates) :
       \E r \in {ValidateBidirectionalMatch(user, candidates[i], <<3, 10>>, Env)} :
          /\ validateResult' = [done |-> TRUE, threw |-> r.threw, value |-> r.value]
          /\ ServiceAfter(r.called)
  /\ UNCHANGED <<user, candidates, config, findResult>>
  /\ UNCHANGED <<simVars, scoreVars, initVars, locVars, exchangeVars, identityVars, privacyVars, signalVars>>

NextFind == FindMatchesCall \/ CalculateMatchScoreEntry \/ ValidateBidirectionalMatchCall

SpecFind == InitFind /\ [][NextFind]_vars

\* the indexes (positions in the input list) of the returned results
Returned == {findResult.matches[k].index : k \in 1..Len(findResult.matches)}

\* C5: no result returned by findMatches has userB.id equal to the subject's
\* id, also when the subject's id occurs several times among the candidates.
C5_NeverMatchesSelf ==
  findResult.done =>
    \A k \in 1..Len(findResult.matches) : findResult.matches[k].userB # user.id

\* C5 witness: a returned, non-empty result for a list that holds the
\* subject's own id twice
C5_Witness ==
  /\ findResult.done /\ ~findResult.threw /\ Len(findResult.matches) > 0
  /\ Cardinality({i \in 1..Len(candidates) : candidates[i].id = user.id}) >= 2

\* C6: the returned list is ordered by totalScore non-increasing, and results
\* with equal totalScore keep the relative order of the input list.
C6_SortedAndStable ==
  findResult.done =>
    \A j, k \in 1..Len(findResult.matches) :
      j < k =>
        /\ RGe(findResult.matches[j].totalScore, findResult.matches[k].totalScore)
        /\ (findResult.matches[j].totalScore = findResult.matches[k].totalScore
              => findResult.matches[j].index < findResult.matches[k].index)

\* C6 witness: a result of three in which a later candidate was moved ahead
\* of an earlier one and two results tie
C6_Witness ==
  /\ findResult.done /\ Len(findResult.matches) = 3
  /\ findResult.matches[1].index > findResult.matches[3].index
  /\ findResult.matches[1].totalScore = findResult.matches[2].totalScore
  /\ RGt(findResult.matches[2].totalScore, findResult.matches[3].totalScore)

\* the threshold and the limit as the claim states them
ClaimedMinScore == IF config.minMatchScore.def THEN config.minMatchScore.v ELSE R0

ClaimedMaxResults == IF config.maxResults.def THEN config.maxResults.v ELSE 50

TotalOf(i) == CalculateMatchScore(user, candidates[i], config.weights, Env).totalScore

\* Q: the non-self candidates whose totalScore reaches the threshold
Qualifying ==
  {i \in 1..Len(candidates) :
     candidates[i].id # user.id /\ RGe(TotalOf(i), ClaimedMinScore)}

\* C7: a returning findMatches returns exactly min(|Q|, maxResults) results
\* (minMatchScore 0 and maxResults 50 when omitted), all of them members of Q,
\* and no omitted member of Q scores strictly higher than a returned one.
C7_FilterAndTruncate ==
  (findResult.done /\ ~findResult.threw) =>
    /\ Len(findResult.matches) =
         (IF Cardinality(Qualifying) < ClaimedMaxResults
          THEN Cardinality(Qualifying) ELSE ClaimedMaxResults)
    /\ Cardinality(Returned) = Len(findResult.matches)
    /\ Returned \subseteq Qualifying
    /\ \A i \in Qualifying \ Returned :
         \A k \in 1..Len(findResult.matches) :
           ~RGt(TotalOf(i), findResult.matches[k].totalScore)

\* C7 witness: three qualifying candidates, one of them below 0.3 and kept
\* because minMatchScore is omitted, truncated to maxResults = 2
C7_Witness ==
  /\ findResult.done /\ ~findResult.threw
  /\ ~config.minMatchScore.def /\ config.maxResults = Given(2)
  /\ Cardinality(Qualifying) = 3 /\ Len(findResult.matches) = 2
  /\ \E i \in Qualifying : RLt(TotalOf(i), <<3, 10>>)

\* processing candidate i fails: an exception is raised while it is handled
ProcessingFails(i) ==
  /\ candidates[i].id # user.id
  /\ \/ EarlyCheckThrows(user, candidates[i])
     \/ CalculateMatchScore(user, candidates[i], config.weights, Env).threw

\* C8: when processing one candidate fails, findMatches still returns; the
\* failing candidate is omitted and every other candidate is still scored
\* and returned (as far as threshold and limit allow).
C8_FailureSkipsOneCandidate ==
  findResult.done =>
    /\ ~findResult.threw
    /\ \A i \in 1..Len(candidates) : ProcessingFails(i) => i \notin Returned
    /\ (Len(candidates) <= ClaimedMaxResults) =>
         \A i \in Qualifying : ~ProcessingFails(i) => i \in Returned

\* C9: findMatches, calculateMatchScore and validateBidirectionalMatch never
\* propagate an exception to the caller.
C9_EntryPointsNeverThrow ==
  /\ findResult.done => ~findResult.threw
  /\ matchScore.done => ~matchScore.threw
  /\ validateResult.done => ~validateResult.threw

\* ------------------------------------------------------------------------
\* Concurrent callers of SemanticService.initialize
\* ------------------------------------------------------------------------
\* app.listen has run: start() awaited the startup initialize()
Listening == initPc[0] \in {"returned", "failed"}

InitInit ==
  /\ embeddingPipeline = Null
  /\ initialized = FALSE
  /\ providerUp \in BOOLEAN
  /\ modelSeed = 0
  /\ SimUnused
  /\ ScoreUnused
  /\ FindUnused
  /\ InitCallsUnused
  /\ SignalsUnused
  /\ PrivacyUnused
  /\ IdentityUnused
  /\ ExchangeUnused
  /\ LocUnused

\* initialize() up to its await: the guard of line 19, then the constructor
\* call of line 25
Initialize(c) ==
  IF initialized /\ embeddingPipeline # Null
  THEN /\ initPc' = [initPc EXCEPT ![c] = "returned"]
       /\ UNCHANGED pipelineCalls
  ELSE /\ initPc' = [initPc EXCEPT ![c] = "awaiting"]
       /\ pipelineCalls' = pipelineCalls + 1

\* start() -> initialize() -> semanticService.initialize()
StartupInitialize ==
  /\ initPc[0] = "idle"
  /\ Initialize(0)
  /\ UNCHANGED <<serviceVars, pipelineWrites, initFailures>>
  /\ UNCHANGED <<simVars, scoreVars, findVars, locVars, exchangeVars, identityVars, privacyVars, signalVars>>

\* a findMatches request reaching line 49
RequestInitialize(c) ==
  /\ Listening /\ c # 0 /\ initPc[c] = "idle"
  /\ Initialize(c)
  /\ UNCHANGED <<serviceVars, pipelineWrites, initFailures>>
  /\ UNCHANGED <<simVars, scoreVars, findVars, locVars, exchangeVars, identityVars, privacyVars, signalVars>>

\* getEmbedding, lines 41-48: initialize() only when the handle is missing
GetEmbeddingInitialize(c) ==
  /\ Listening /\ c # 0 /\ initPc[c] = "idle"
  /\ IF embeddingPipeline = Null
     THEN Initialize(c)
     ELSE /\ initPc' = [initPc EXCEPT ![c] = "returned"]
          /\ UNCHANGED pipelineCalls
  /\ UNCHANGED <<serviceVars, pipelineWrites, initFailures>>
  /\ UNCHANGED <<simVars, scoreVars, findVars, locVars, exchangeVars, identityVars, privacyVars, signalVars>>

\* the awaited constructor resolves: lines 25 and 29
PipelineResolves(c) ==
  /\ initPc[c] = "awaiting" /\ providerUp
  /\ embeddingPipeline' = Handle
  /\ initialized' = TRUE
  /\ pipelineWrites' = pipelineWrites + 1
  /\ initPc' = [initPc EXCEPT ![c] = "returned"]
  /\ UNCHANGED <<providerUp, modelSeed, pipelineCalls, initFailures>>
  /\ UNCHANGED <<simVars, scoreVars, findVars, locVars, exchangeVars, identityVars, privacyVars, signalVars>>

\* the awaited constructor rejects: lines 31-34
PipelineRejects(c) ==
  /\ initPc[c] = "awaiting" /\ ~providerUp
  /\ initFailures' = initFailures + 1
  /\ initPc' = [initPc EXCEPT ![c] = "failed"]
  /\ UNCHANGED <<serviceVars, pipelineCalls, pipelineWrites>>
  /\ UNCHANGED <<simVars, scoreVars, findVars, locVars, exchangeVars, identityVars, privacyVars, signalVars>>

\* the environment: the provider becomes reachable or unreachable
ProviderChanges ==
  /\ providerUp' = ~providerUp
  /\ UNCHANGED <<embeddingPipeline, initialized, modelSeed>>
  /\ UNCHANGED <<simVars, scoreVars, findVars, initVars, locVars, exchangeVars, identityVars, privacyVars, signalVars>>

NextInit ==
  \/ StartupInitialize
  \/ \E c \in InitCallers : RequestInitialize(c)
  \/ \E c \in InitCallers : GetEmbeddingInitialize(c)
  \/ \E c \in InitCallers : PipelineResolves(c)
  \/ \E c \in InitCallers : PipelineRejects(c)
  \/ ProviderChanges

SpecInit == InitInit /\ [][NextInit]_vars

\* C10: initialization is single-flight: the pipeline constructor is invoked
\* at most once while no initialization has failed, and the embeddingPipeline
\* field is written at most once.
C10_SingleFlightInit ==
  /\ (initFailures = 0 => pipelineCalls <= 1)
  /\ pipelineWrites <= 1

\* ------------------------------------------------------------------------
\* A process whose startup initialization may fail, serving calls afterwards
\* ------------------------------------------------------------------------
DegradedNamesA == {nAA, <<"a", "b">>, nJS}

DegradedNamesB == {nAsA, <<"a", " ", "c">>, nJsPadded, <<"c">>}

DegradedCandidateLists ==
  {<<>>, <<cPerfect1>>, <<cOneWay, cPerfect1>>, <<cMalformed>>,
   <<cPerfect1, cSelf, cNoSkills>>}

InitDegraded ==
  /\ embeddingPipeline = Null
  /\ initialized = FALSE
  /\ providerUp = FALSE
  /\ modelSeed \in Seeds
  /\ skillA \in {Skill(n, "expert") : n \in DegradedNamesA}
  /\ skillB \in {Skill(n, "beginner") : n \in DegradedNamesB}
  /\ simResult = SimIdle
  /\ ScoreUnused
  /\ user \in {Subject, BareSubject}
  /\ candidates \in DegradedCandidateLists
  /\ config = Config(DEFAULT_WEIGHTS, AbsentScore, Absent)
  /\ findResult = FindIdle
  /\ validateResult = ValidateIdle
  /\ InitCallsUnused
  /\ SignalsUnused
  /\ PrivacyUnused
  /\ IdentityUnused
  /\ ExchangeUnused
  /\ LocUnused

\* the startup call's constructor promise settles
StartupSettles == PipelineResolves(0) \/ PipelineRejects(0)

\* a skill comparison served once the server listens
ServedSimilarityCall ==
  /\ Listening
  /\ CalculateSkillSimilarityCall

\* a findMatches request served once the server listens
ServedFindMatches ==
  /\ Listening
  /\ FindMatchesCall

NextDegraded ==
  \/ StartupInitialize
  \/ StartupSettles
  \/ ServedSimilarityCall
  \/ ServedFindMatches
  \/ ProviderChanges

SpecDegraded == InitDegraded /\ [][NextDegraded]_vars

\* some candidate that findMatches reaches has a skill entry without a name
SomeCandidateMalformed ==
  \E i \in 1..Len(candidates) :
    candidates[i].id # user.id /\ EarlyCheckThrows(user, candidates[i])

\* C11: after a failed initialization the server still listens, and while
\* the provider is unavailable every skill comparison that reaches the
\* embedding stage returns the lexical-fallback score without throwing, and
\* findMatches returns for every list of well-formed candidates.
C11_InitFailureFallsBack ==
  [][(~providerUp /\ initFailures >= 1) =>
       /\ Listening
       /\ (~simResult.done /\ simResult'.done /\ simResult'.called) =>
            /\ ~simResult'.threw
            /\ simResult'.score = FallbackSimilarity(skillA, skillB).score
            /\ simResult'.stage = FallbackSimilarity(skillA, skillB).stage
       /\ (~findResult.done /\ findResult'.done /\ ~SomeCandidateMalformed) =>
            ~findResult'.threw]_vars

\* C11 witness: initialization failed, the provider is still unavailable, a
\* comparison got the word-overlap fallback score and findMatches returned
\* results
C11_Witness ==
  /\ initFailures >= 1 /\ ~providerUp /\ embeddingPipeline = Null
  /\ simResult.done /\ simResult.called /\ simResult.stage = "fallback-overlap"
  /\ findResult.done /\ ~findResult.threw /\ Len(findResult.matches) > 0

\* ------------------------------------------------------------------------
\* calculateLocationSimilarity applied to bounded pairs of locations
\* ------------------------------------------------------------------------
cNice == Str(<<"n", "i", "c", "e">>)

cFranceUpper == Str(<<"F", "R", " ">>)

cGermany == Str(<<"d", "e">>)

\* latitude / longitude pairs in whole degrees, and records lacking one or
\* both coordinates
CoordsA ==
  {<<Coord(lat), Coord(lon)>> : lat \in {-30, 0, 1, 49}, lon \in {0, 2}}
  \cup {<<NoCoord, NoCoord>>, <<Coord(49), NoCoord>>}

CoordsB ==
  {<<Coord(lat), Coord(lon)>> : lat \in {0, 1, 6, 21, 49}, lon \in {0, 2}}
  \cup {<<NoCoord, NoCoord>>, <<NoCoord, Coord(2)>>}

LocationsA ==
  {NoLocation}
  \cup {Location(city, country, c[1], c[2]) :
          city \in {Undef, Str(<<>>), cParis, cNice}, country \in {Undef, cFrance},
          c \in CoordsA}

LocationsB ==
  {NoLocation}
  \cup {Location(city, country, c[1], c[2]) :
          city \in {Undef, cParisLower, cNice},
          country \in {Undef, cFranceUpper, cGermany}, c \in CoordsB}

\* the pairs on which CalculateDistance is the haversine distance: one
\* meridian, or both points on the equator
DistanceModelled(locA, locB) ==
  (locA.latitude.def /\ locA.longitude.def /\ locB.latitude.def /\ locB.longitude.def)
    => \/ locA.longitude.v = locB.longitude.v
       \/ (locA.latitude.v = 0 /\ locB.latitude.v = 0)

InitLoc ==
  /\ ServiceInit
  /\ SimUnused
  /\ FindUnused
  /\ InitCallsUnused
  /\ SignalsUnused
  /\ PrivacyUnused
  /\ IdentityUnused
  /\ ExchangeUnused
  /\ userA \in {Profile("u0", <<>>, <<>>, l, {"en"}, <<1, 2>>) : l \in LocationsA}
  /\ userB \in {Profile("u1", <<>>, <<>>, l, {"en"}, <<1, 2>>) : l \in LocationsB}
  /\ DistanceModelled(userA.location, userB.location)
  /\ weights = DEFAULT_WEIGHTS
  /\ matchScore = ScoreIdle
  /\ locResult = LocIdle

CalculateLocationSimilarityCall ==
  /\ ~locResult.done
  /\ locResult' = [done |-> TRUE] @@ CalculateLocationSimilarity(userA, userB)
  /\ UNCHANGED <<serviceVars, simVars, scoreVars, findVars, initVars, exchangeVars, identityVars, privacyVars, signalVars>>

NextLoc == CalculateLocationSimilarityCall

SpecLoc == InitLoc /\ [][NextLoc]_vars

\* C12: calculateLocationSimilarity returns exactly 0.5 whenever the location
\* of at least one of the two profiles is absent.
C12_MissingLocationIsNeutral ==
  (locResult.done /\ (~userA.location.present \/ ~userB.location.present))
    => locResult.score = <<1, 2>>

\* C12 witness: one profile has a full location, the other has none
C12_Witness ==
  /\ locResult.done /\ locResult.score = <<1, 2>>
  /\ userA.location.present /\ userA.location.city = cParis
  /\ userA.location.latitude.def /\ ~userB.location.present

\* an optional text field that carries a value
Declared(x) == x.def /\ Trim(x.v) # <<>>

\* C13: for two present locations, same city (1.0) is reported only when both
\* declare a city and a country that are equal after trim and lowercase, and
\* same country (0.7) only when both declare an equal country and the cities
\* differ; a field absent on both sides makes neither.
C13_SameCityNeedsDeclaredFields ==
  (locResult.done /\ userA.location.present /\ userB.location.present) =>
    LET locA == userA.location
        locB == userB.location
    IN /\ locResult.sameCity =>
            /\ locResult.score = R1
            /\ Declared(locA.city) /\ Declared(locB.city)
            /\ Declared(locA.country) /\ Declared(locB.country)
            /\ NormOpt(locA.city) = NormOpt(locB.city)
            /\ NormOpt(locA.country) = NormOpt(locB.country)
       /\ locResult.sameCountry =>
            /\ locResult.score = <<7, 10>>
            /\ Declared(locA.country) /\ Declared(locB.country)
            /\ NormOpt(locA.country) = NormOpt(locB.country)
            /\ NormOpt(locA.city) # NormOpt(locB.city)
       /\ (locResult.score = R1 => locResult.sameCity)

\* the band of a distance in km as the claim states it
ClaimedBand(d) ==
  IF d < 100 THEN <<9, 10>>
  ELSE IF d < 500 THEN <<7, 10>>
  ELSE IF d < 2000 THEN <<1, 2>>
  ELSE IF d < 5000 THEN <<3, 10>>
  ELSE <<1, 10>>

\* C14: two present locations that are neither same city nor same country and
\* both carry a latitude and a longitude (0 included) get the band of their
\* distance; 0.2 is returned only when a coordinate is missing.
C14_DistanceBandForAllCoordinates ==
  (/\ locResult.done /\ userA.location.present /\ userB.location.present
   /\ ~locResult.sameCity /\ ~locResult.sameCountry) =>
    LET locA == userA.location
        locB == userB.location
        bothCarry == /\ locA.latitude.def /\ locA.longitude.def
                     /\ locB.latitude.def /\ locB.longitude.def
    IN /\ bothCarry =>
            locResult.score = ClaimedBand(CalculateDistance(locA.latitude.v, locA.longitude.v,
                                                            locB.latitude.v, locB.longitude.v))
       /\ locResult.score = <<1, 5>> => ~bothCarry

\* ------------------------------------------------------------------------
\* The exchange routes served by concurrent handlers
\* ------------------------------------------------------------------------
\* String(exchange.userA) === userId || String(exchange.userB) === userId
IsParticipant(doc, userId) == doc.userA = userId \/ doc.userB = userId

\* the paths Mongoose marks modified: those whose value differs from the
\* loaded document; save() writes these and no others
Dirty(loaded, doc) == {f \in DOMAIN doc : doc[f] # loaded[f]}

\* the query of lines 56-61: an active exchange between the two users, in
\* either order
ExistingExchange(a, b) ==
  \E i \in 1..Len(exchanges) :
    /\ exchanges[i].status \in {"pending", "accepted", "in_progress"}
    /\ \/ (exchanges[i].userA = a /\ exchanges[i].userB = b)
       \/ (exchanges[i].userA = b /\ exchanges[i].userB = a)

\* res.status(code).json(...): the handler ends
Respond(h, code) == handlers' = [handlers EXCEPT ![h] = IdleHandler(code)]

\* an idle handler receives a request
Receive(h) ==
  /\ handlers[h].pc = "idle"
  /\ served < MaxRequests
  /\ served' = served + 1

\* the handler goes on to its exchange.save()
Continue(h, pc, kind, userId, ex, loaded, doc) ==
  handlers' = [handlers EXCEPT ![h] = BusyHandler(pc, kind, userId, ex, doc, Dirty(loaded, doc))]

OthersUnchanged == UNCHANGED <<serviceVars, simVars, scoreVars, findVars, initVars, locVars, identityVars, privacyVars, signalVars>>

\* POST /create up to the insert: the users are looked up, then the active
\* exchange query of lines 56-61
CreateBegin(h, userId, matchedUserId) ==
  /\ Receive(h)
  /\ Len(exchanges) + Cardinality({g \in Handlers : handlers[g].pc = "creating"}) < MaxExchanges
  /\ IF matchedUserId \notin ExUsers THEN Respond(h, 404)
     ELSE IF ExistingExchange(userId, matchedUserId) THEN Respond(h, 400)
     ELSE Continue(h, "creating", "create", userId, 0, NoDoc,
                   NewExchange(userId, matchedUserId))
  /\ UNCHANGED <<exchanges, trust>>
  /\ OthersUnchanged

\* POST /create, line 79: the new document is inserted
CreateSave(h) ==
  /\ handlers[h].pc = "creating"
  /\ exchanges' = Append(exchanges, handlers[h].doc)
  /\ Respond(h, 201)
  /\ UNCHANGED <<trust, served>>
  /\ OthersUnchanged

\* POST /:exchangeId/accept up to exchange.save()
AcceptBegin(h, userId, ex) ==
  /\ Receive(h)
  /\ IF ex > Len(exchanges) THEN Respond(h, 404)
     ELSE IF ~IsParticipant(exchanges[ex], userId) THEN Respond(h, 403)
     ELSE IF exchanges[ex].status # "pending" THEN Respond(h, 400)
     ELSE Continue(h, "saving", "accept", userId, ex, exchanges[ex],
                   [exchanges[ex] EXCEPT !.status = "accepted", !.startedAt = TRUE])
  /\ UNCHANGED <<exchanges, trust>>
  /\ OthersUnchanged

\* POST /:exchangeId/start up to exchange.save()
StartBegin(h, userId, ex) ==
  /\ Receive(h)
  /\ IF ex > Len(exchanges) THEN Respond(h, 404)
     ELSE IF ~IsParticipant(exchanges[ex], userId) THEN Respond(h, 403)
     ELSE IF exchanges[ex].status # "accepted" THEN Respond(h, 400)
     ELSE Continue(h, "saving", "start", userId, ex, exchanges[ex],
                   [exchanges[ex] EXCEPT !.status = "in_progress", !.startedAt = TRUE])
  /\ UNCHANGED <<exchanges, trust>>
  /\ OthersUnchanged

\* the confirm handler completing as soon as either participant confirmed
ConfirmedDocEitherFlag(doc, isUserA) ==
  [doc EXCEPT !.userAConfirmed = @ \/ isUserA, !.userBConfirmed = @ \/ ~isUserA,
              !.status = "completed", !.completedAt = TRUE]

\* lines 221-232: the caller's flag is set on the loaded document, which is
\* completed when it then carries both flags
ConfirmedDoc(doc, isUserA) ==
  IF (doc.userAConfirmed \/ isUserA) /\ (doc.userBConfirmed \/ ~isUserA)
  THEN [doc EXCEPT !.userAConfirmed = @ \/ isUserA, !.userBConfirmed = @ \/ ~isUserA,
                   !.status = "completed", !.completedAt = TRUE]
  ELSE [doc EXCEPT !.userAConfirmed = @ \/ isUserA, !.userBConfirmed = @ \/ ~isUserA]

\* POST /:exchangeId/confirm (and confirmCompletion of the review
\* controller, the same steps) up to exchange.save()
ConfirmBegin(h, userId, ex) ==
  /\ Receive(h)
  /\ IF ex > Len(exchanges) THEN Respond(h, 404)
     ELSE IF ~IsParticipant(exchanges[ex], userId) THEN Respond(h, 403)
     ELSE IF exchanges[ex].status # "in_progress" THEN Respond(h, 400)
     ELSE Continue(h, "saving", "confirm", userId, ex, exchanges[ex],
                   ConfirmedDoc(exchanges[ex], exchanges[ex].userA = userId))
  /\ UNCHANGED <<exchanges, trust>>
  /\ OthersUnchanged

\* POST /:exchangeId/review up to exchange.save(); the body is validated
\* before the exchange is read
ReviewBegin(h, userId, ex, rating) ==
  /\ Receive(h)
  /\ IF rating < 1 \/ rating > 5 THEN Respond(h, 400)
     ELSE IF ex > Len(exchanges) THEN Respond(h, 404)
     ELSE IF exchanges[ex].status # "completed" THEN Respond(h, 400)
     ELSE IF ~IsParticipant(exchanges[ex], userId) THEN Respond(h, 403)
     ELSE Continue(h, "saving", "review", userId, ex, exchanges[ex],
                   IF exchanges[ex].userA = userId
                   THEN [exchanges[ex] EXCEPT !.userAReview = rating]
                   ELSE [exchanges[ex] EXCEPT !.userBReview = rating])
  /\ UNCHANGED <<exchanges, trust>>
  /\ OthersUnchanged

\* exchange.save(): the modified paths are written to the stored document;
\* the review handler goes on to updateTrustScores
Save(h) ==
  /\ handlers[h].pc = "saving"
  /\ exchanges' =
       [exchanges EXCEPT ![handlers[h].ex] =
          [f \in DOMAIN @ |-> IF f \in handlers[h].dirty THEN handlers[h].doc[f] ELSE @[f]]]
  /\ IF handlers[h].kind = "review"
     THEN handlers' = [handlers EXCEPT ![h].pc = "trust"]
     ELSE Respond(h, 200)
  /\ UNCHANGED <<trust, served>>
  /\ OthersUnchanged

\* new = old * 0.7 + (rating / 5) * 0.3, clamped
AdjustedTrust(old, rating) ==
  Clamp01(RAdd(RMul(old, <<7, 10>>), RMul(Rat(rating, 5), <<3, 10>>)))

\* updateTrustScores(exchange) on the handler's document, then the response
UpdateTrustScores(h) ==
  /\ handlers[h].pc = "trust"
  /\ IF handlers[h].doc.userAReview = 0 \/ handlers[h].doc.userBReview = 0
     THEN UNCHANGED trust
     ELSE trust' =
            [trust EXCEPT
               ![handlers[h].doc.userA] = AdjustedTrust(trust[handlers[h].doc.userA],
                                                        handlers[h].doc.userBReview),
               ![handlers[h].doc.userB] = AdjustedTrust(trust[handlers[h].doc.userB],
                                                        handlers[h].doc.userAReview)]
  /\ Respond(h, 200)
  /\ UNCHANGED <<exchanges, served>>
  /\ OthersUnchanged

\* who sends requests: u1 and u2 create exchanges, u3 is an outsider
Creators == {"u1", "u2"}

CreateTargets == {"u1", "u2", "ghost"}

ExchangeIds == 1..MaxExchanges

Ratings == {0, 4}

InitExchange ==
  /\ embeddingPipeline = Null
  /\ initialized = FALSE
  /\ providerUp = FALSE
  /\ modelSeed = 0
  /\ SimUnused
  /\ ScoreUnused
  /\ FindUnused
  /\ InitCallsUnused
  /\ SignalsUnused
  /\ PrivacyUnused
  /\ IdentityUnused
  /\ LocUnused
  /\ exchanges = <<>>
  /\ trust = [u \in ExUsers |-> <<1, 2>>]
  /\ handlers = [h \in Handlers |-> IdleHandler(0)]
  /\ served = 0

NextExchange ==
  \E h \in Handlers :
    \/ \E u \in Creators, m \in CreateTargets : CreateBegin(h, u, m)
    \/ CreateSave(h)
    \/ \E u \in ExUsers, ex \in ExchangeIds : AcceptBegin(h, u, ex)
    \/ \E u \in ExUsers, ex \in ExchangeIds : StartBegin(h, u, ex)
    \/ \E u \in ExUsers, ex \in ExchangeIds : ConfirmBegin(h, u, ex)
    \/ \E u \in ExUsers, ex \in ExchangeIds, r \in Ratings : ReviewBegin(h, u, ex, r)
    \/ Save(h)
    \/ UpdateTrustScores(h)

SpecExchange == InitExchange /\ [][NextExchange]_vars

\* C17: in every reachable state, an exchange with status completed has
\* userAConfirmed and userBConfirmed both true.
C17_CompletedImpliesBothConfirmed ==
  \A i \in 1..Len(exchanges) :
    exchanges[i].status = "completed" =>
      exchanges[i].userAConfirmed /\ exchanges[i].userBConfirmed

\* C17 witness: an exchange between two different users was completed
C17_Witness ==
  \E i \in 1..Len(exchanges) :
    /\ exchanges[i].status = "completed" /\ exchanges[i].userA # exchanges[i].userB
    /\ exchanges[i].userAConfirmed /\ exchanges[i].userBConfirmed

\* C18: once both participants' confirm requests have been processed (both
\* flags are stored), the stored exchange is completed with completedAt set,
\* also when the two confirm requests are handled concurrently.
C18_BothConfirmedIsCompleted ==
  \A i \in 1..Len(exchanges) :
    (exchanges[i].userAConfirmed /\ exchanges[i].userBConfirmed) =>
      exchanges[i].status = "completed" /\ exchanges[i].completedAt

\* the documented status flow
StatusChain ==
  {<<"pending", "accepted">>, <<"accepted", "in_progress">>, <<"in_progress", "completed">>}

\* C19: a stored status only moves along pending -> accepted -> in_progress
\* -> completed, and a request that ends with an error leaves the stored
\* exchanges unchanged.
C19_StatusMovesForwardOnly ==
  [][/\ \A i \in 1..Len(exchanges) :
          exchanges'[i].status # exchanges[i].status =>
            <<exchanges[i].status, exchanges'[i].status>> \in StatusChain
     /\ \A h \in Handlers :
          (handlers'[h].code \in {400, 403, 404} /\ handlers[h] # handlers'[h])
            => exchanges' = exchanges]_vars

\* the exchange is pending, accepted or in progress
Active(doc) == doc.status \in {"pending", "accepted", "in_progress"}

\* C28: at any time at most one stored exchange between a given unordered
\* pair of users is pending, accepted or in progress, also when two create
\* requests for the pair are handled concurrently.
C28_OneActiveExchangePerPair ==
  \A i \in 1..Len(exchanges), j \in 1..Len(exchanges) :
    (i # j /\ Active(exchanges[i]) /\ Active(exchanges[j]))
      => {exchanges[i].userA, exchanges[i].userB} # {exchanges[j].userA, exchanges[j].userB}

\* the exchanges that carry both reviews
Reviewed == {i \in 1..Len(exchanges) : exchanges[i].userAReview # 0 /\ exchanges[i].userBReview # 0}

\* 0.7 * old + 0.3 * (rating / 5)
ClaimedAdjustment(old, rating) ==
  RAdd(RMul(<<7, 10>>, old), RMul(<<3, 10>>, Rat(rating, 5)))

\* C29: while at most one exchange carries both reviews, every trust score is
\* the initial one or the initial one adjusted once by a rating, however
\* often the review route was called, and lies in [0,1].
C29_TrustAdjustedAtMostOnce ==
  Cardinality(Reviewed) <= 1 =>
    \A u \in ExUsers :
      /\ RLe(R0, trust[u]) /\ RLe(trust[u], R1)
      /\ \/ trust[u] = <<1, 2>>
         \/ \E rating \in 1..5 :
              /\ RLe(trust[u], ClaimedAdjustment(<<1, 2>>, rating))
              /\ RLe(ClaimedAdjustment(<<1, 2>>, rating), trust[u])

\* C30: every stored exchange has two distinct participants.
C30_DistinctParticipants ==
  \A i \in 1..Len(exchanges) : exchanges[i].userA # exchanges[i].userB

\* ------------------------------------------------------------------------
\* serializeUser and the user objects of POST /api/matching/find
\* ------------------------------------------------------------------------
\* a || b on optional strings: undefined and '' are falsy
OrElse(a, b) == IF a.def /\ a.v # <<>> THEN a ELSE b

Anonymous == <<"A", "n", "o", "n", "y", "m", "o", "u", "s">>

UnknownUser == <<"U", "n", "k", "n", "o", "w", "n", " ", "U", "s", "e", "r">>

\* `User_${userId.substring(0, 8)}`
UserIdName == <<"U", "s", "e", "r", "_", "1">>

\* serializeUser(user, includePII): the name and the email of the result
SerializeUser(usr, includePII) ==
  IF usr.isAnonymous.def /\ usr.isAnonymous.v
  THEN PublicUser(OrElse(usr.anonymousName, Str(Anonymous)).v, Undef)
  ELSE PublicUser(OrElse(usr.name, OrElse(usr.username, Str(UnknownUser))).v,
                  IF includePII THEN usr.email ELSE Undef)

\* s.split('@')[0]
RECURSIVE BeforeAt(_)
BeforeAt(s) ==
  IF s = <<>> \/ Head(s) = "@" THEN <<>> ELSE <<Head(s)>> \o BeforeAt(Tail(s))

\* convertUserToProfile, lines 521-524: userName.trim() || `User_...`
FinalName(dbUser) ==
  OrElse(Str(Trim(OrElse(dbUser.name,
                  OrElse(dbUser.username,
                  OrElse(IF dbUser.email.def THEN Str(BeforeAt(dbUser.email.v)) ELSE Undef,
                         Str(UserIdName)))).v)),
         Str(UserIdName))

\* convertUserToProfile(dbUser): the username and the email of the profile
ConvertUserToProfile(dbUser) ==
  PublicUser(OrElse(Str(SerializeUser(dbUser, FALSE).name), FinalName(dbUser)).v,
             OrElse(SerializeUser(dbUser, FALSE).email, OrElse(dbUser.email, Str(<<>>))))

\* the route's userA / userB object: { ...match.userB, offers, wants,
\* createdAt, updatedAt } keeps the profile's username and email
MatchUser(profile) == [name |-> profile.name, email |-> profile.email]

RealName == <<"a", "n", "a">>

LoginName == <<"a", "n">>

Email == <<"a", "@", "x">>

Pseudonym == <<"S", "p", "y">>

DbUsers ==
  {DbUser(name, username, email, isAnonymous, anonymousName) :
     name \in {Undef, Str(RealName)}, username \in {Undef, Str(LoginName)},
     email \in {Undef, Str(Email)}, isAnonymous \in {NoFlag, Flag(FALSE), Flag(TRUE)},
     anonymousName \in {Undef, Str(Pseudonym)}}

InitIdentity ==
  /\ embeddingPipeline = Null
  /\ initialized = FALSE
  /\ providerUp = FALSE
  /\ modelSeed = 0
  /\ SimUnused
  /\ ScoreUnused
  /\ FindUnused
  /\ InitCallsUnused
  /\ SignalsUnused
  /\ PrivacyUnused
  /\ LocUnused
  /\ ExchangeUnused
  /\ \E usr \in DbUsers : identity = [IdentityIdle EXCEPT !.user = usr]

\* a route answers with serializeUser(user, includePII)
SerializeUserCall(includePII) ==
  /\ ~identity.done
  /\ identity' = [identity EXCEPT !.done = TRUE,
                                  !.kind = IF includePII THEN "serialize-pii" ELSE "serialize",
                                  !.out = SerializeUser(identity.user, includePII)]
  /\ UNCHANGED <<serviceVars, simVars, scoreVars, findVars, initVars, locVars, exchangeVars, privacyVars, signalVars>>

\* POST /api/matching/find answers with the user as userA or userB of a match
FindResponse ==
  /\ ~identity.done
  /\ identity' = [identity EXCEPT !.done = TRUE, !.kind = "find",
                                  !.out = MatchUser(ConvertUserToProfile(identity.user))]
  /\ UNCHANGED <<serviceVars, simVars, scoreVars, findVars, initVars, locVars, exchangeVars, privacyVars, signalVars>>

NextIdentity ==
  \/ \E includePII \in BOOLEAN : SerializeUserCall(includePII)
  \/ FindResponse

SpecIdentity == InitIdentity /\ [][NextIdentity]_vars

\* the stored real name and email of a user
RealIdentity(usr) ==
  {usr[f].v : f \in {g \in {"name", "email"} : usr[g].def /\ usr[g].v # <<>>}}

\* C20: the public object built for a user whose isAnonymous flag is true
\* carries neither the user's real name nor the user's email, whether it comes
\* from serializeUser or is the userA / userB object of a match of
\* POST /api/matching/find.
C20_AnonymousIdentityMasked ==
  (identity.done /\ identity.user.isAnonymous = Flag(TRUE)) =>
    \A secret \in RealIdentity(identity.user) :
      /\ identity.out.name # secret
      /\ ~(identity.out.email.def /\ identity.out.email.v = secret)

\* ------------------------------------------------------------------------
\* PATCH /api/privacy/toggle served by concurrent handlers
\* ------------------------------------------------------------------------
\* lines 262-276: the loaded user with the flag flipped and, when anonymous
\* mode is being enabled without a pseudonym, a generated one
Toggled(loaded, pseudonym) ==
  IF ~loaded.isAnonymous /\ loaded.anonymousName = 0
  THEN Account(TRUE, pseudonym)
  ELSE Account(~loaded.isAnonymous, loaded.anonymousName)

\* the handler up to user.save(): User.findById, then the assignments
ToggleBegin(t, pseudonym) ==
  /\ togglers[t].pc = "idle"
  /\ toggles < MaxToggles
  /\ toggles' = toggles + 1
  /\ togglers' = [togglers EXCEPT ![t] =
                    SavingToggler(Toggled(account, pseudonym),
                                  Toggled(account, pseudonym).anonymousName # account.anonymousName)]
  /\ UNCHANGED account
  /\ UNCHANGED <<serviceVars, simVars, scoreVars, findVars, initVars, locVars, exchangeVars, identityVars, signalVars>>

\* user.save() writes isAnonymous, and anonymousName when it was assigned;
\* the response follows
ToggleSave(t) ==
  /\ togglers[t].pc = "saving"
  /\ account' = Account(togglers[t].doc.isAnonymous,
                        IF togglers[t].namePath THEN togglers[t].doc.anonymousName
                        ELSE account.anonymousName)
  /\ togglers' = [togglers EXCEPT ![t] = IdleToggler]
  /\ UNCHANGED toggles
  /\ UNCHANGED <<serviceVars, simVars, scoreVars, findVars, initVars, locVars, exchangeVars, identityVars, signalVars>>

InitPrivacy ==
  /\ embeddingPipeline = Null
  /\ initialized = FALSE
  /\ providerUp = FALSE
  /\ modelSeed = 0
  /\ SimUnused
  /\ ScoreUnused
  /\ FindUnused
  /\ InitCallsUnused
  /\ SignalsUnused
  /\ LocUnused
  /\ ExchangeUnused
  /\ IdentityUnused
  /\ PrivacyUnused

NextPrivacy ==
  \E t \in Togglers :
    \/ \E pseudonym \in Pseudonyms : ToggleBegin(t, pseudonym)
    \/ ToggleSave(t)

SpecPrivacy == InitPrivacy /\ [][NextPrivacy]_vars

\* C21: once anonymousName has been set it never changes, and every toggle
\* that is carried out flips the stored isAnonymous.
C21_PseudonymPersists ==
  [][/\ account.anonymousName # 0 => account'.anonymousName = account.anonymousName
     /\ (\E t \in Togglers : togglers[t].pc = "saving" /\ togglers'[t].pc = "idle")
          => account'.isAnonymous # account.isAnonymous]_vars

\* ------------------------------------------------------------------------
\* calculateMatchScore applied to bounded scorer outcomes
\* ------------------------------------------------------------------------
\* a failed signal taken as 0 whatever its neutral value
RecoveredAsZero(r, neutral) == IF r.threw \/ ~r.def THEN R0 ELSE r.v

\* the try / catch around each scorer (lines 170-213): the default stays
\* when the scorer throws, and replaces a missing score (?? 0.5)
Recovered(r, neutral) == IF r.threw \/ ~r.def THEN neutral ELSE r.v

\* lines 216-254: the weighted sum, the boost chain and the clamp
TotalScore(w, sAB, sBA, locationScore, languageScore, trustScore) ==
  Clamp01(Boost(WeightedSum(w, sAB, sBA, locationScore, languageScore, trustScore), sAB, sBA))

\* calculateMatchScore on numeric weights, given what each scorer did
ScoreSignals(w, rAB, rBA, rLoc, rLang, rTrust) ==
  [sAB |-> Recovered(rAB, R0), sBA |-> Recovered(rBA, R0),
   loc |-> Recovered(rLoc, <<1, 2>>), lang |-> Recovered(rLang, <<1, 2>>),
   trust |-> Recovered(rTrust, <<1, 2>>),
   totalScore |-> TotalScore(w, Recovered(rAB, R0), Recovered(rBA, R0),
                             Recovered(rLoc, <<1, 2>>), Recovered(rLang, <<1, 2>>),
                             Recovered(rTrust, <<1, 2>>))]

\* directional aggregates around the thresholds of the boost chain
SignalGrid ==
  {R0, <<1, 10>>, <<1, 2>>, <<79, 100>>, <<4, 5>>, <<9, 10>>, <<19, 20>>, R1}

SemanticOutcomes == {Failed} \cup {Scored(x) : x \in SignalGrid}

LocationOutcomes == {Failed, NoScore, Scored(<<1, 5>>), Scored(R1)}

LanguageOutcomes == {Failed, Scored(R0), Scored(R1)}

TrustOutcomes == {Failed, Scored(<<1, 5>>), Scored(R1)}

NumericWeights == {DEFAULT_WEIGHTS, ZeroWeights, HeavyWeights}

InitSignals ==
  /\ embeddingPipeline = Null
  /\ initialized = FALSE
  /\ providerUp = FALSE
  /\ modelSeed = 0
  /\ SimUnused
  /\ ScoreUnused
  /\ FindUnused
  /\ InitCallsUnused
  /\ LocUnused
  /\ ExchangeUnused
  /\ IdentityUnused
  /\ PrivacyUnused
  /\ \E w \in NumericWeights, rAB \in SemanticOutcomes, rBA \in SemanticOutcomes,
        rLoc \in LocationOutcomes, rLang \in LanguageOutcomes, rTrust \in TrustOutcomes :
       signals = [SignalsIdle EXCEPT !.weights = w, !.rAB = rAB, !.rBA = rBA,
                                     !.rLoc = rLoc, !.rLang = rLang, !.rTrust = rTrust]

CalculateMatchScoreFromSignals ==
  /\ ~signals.done
  /\ \E r \in {ScoreSignals(signals.weights, signals.rAB, signals.rBA, signals.rLoc,
                             signals.rLang, signals.rTrust)} :
       signals' = [signals EXCEPT !.done = TRUE, !.sAB = r.sAB, !.sBA = r.sBA,
                                  !.loc = r.loc, !.lang = r.lang, !.trust = r.trust,
                                  !.totalScore = r.totalScore]
  /\ UNCHANGED <<serviceVars, simVars, scoreVars, findVars, initVars, locVars, exchangeVars, identityVars, privacyVars>>

NextSignals == CalculateMatchScoreFromSignals

SpecSignals == InitSignals /\ [][NextSignals]_vars

\* equality of two rationals
SameNumber(a, b) == RLe(a, b) /\ RLe(b, a)

\* w1*SA + w2*SB + w3*Lgeo + w4*Llang + w5*Ttrust over the signals used
ClaimedSum ==
  RAdd(RMul(signals.weights.w1.v, signals.sAB),
  RAdd(RMul(signals.weights.w2.v, signals.sBA),
  RAdd(RMul(signals.weights.w3.v, signals.loc),
  RAdd(RMul(signals.weights.w4.v, signals.lang),
       RMul(signals.weights.w5.v, signals.trust)))))

\* the five rules in the claimed order: condition and floor
RuleHolds(k, sA, sB) ==
  CASE k = 1 -> RGe(sA, <<19, 20>>) /\ RGe(sB, <<19, 20>>)
    [] k = 2 -> RGe(sA, <<4, 5>>) /\ RGe(sB, <<4, 5>>)
    [] k = 3 -> RGe(sA, <<19, 20>>) \/ RGe(sB, <<19, 20>>)
    [] k = 4 -> RGe(sA, <<4, 5>>) \/ RGe(sB, <<4, 5>>)
    [] OTHER -> RGt(sA, R0) \/ RGt(sB, R0)

RuleFloor(k) ==
  CASE k = 1 -> <<4, 5>> [] k = 2 -> <<7, 10>> [] k = 3 -> <<3, 5>>
    [] k = 4 -> <<1, 2>> [] OTHER -> <<3, 10>>

Rules == 1..5

\* the first rule whose condition holds, 0 when none does
FirstRule(sA, sB) ==
  IF \E k \in Rules : RuleHolds(k, sA, sB)
  THEN CHOOSE k \in Rules : RuleHolds(k, sA, sB) /\ \A j \in 1..(k - 1) : ~RuleHolds(j, sA, sB)
  ELSE 0

\* C22: totalScore is the clamped maximum of the weighted sum and the floor
\* of the first rule whose condition holds, and the clamped weighted sum when
\* both directional scores are 0.
C22_FirstRuleFloor ==
  signals.done =>
    IF FirstRule(signals.sAB, signals.sBA) = 0
    THEN /\ signals.sAB = R0 /\ signals.sBA = R0
         /\ SameNumber(signals.totalScore, Clamp01(ClaimedSum))
    ELSE SameNumber(signals.totalScore,
                    Clamp01(RMax(ClaimedSum, RuleFloor(FirstRule(signals.sAB, signals.sBA)))))

\* C22 witness: one direction is perfect and the other weak, the weights are
\* all zero, and the total is the 0.6 floor of the third rule
C22_Witness ==
  /\ signals.done /\ signals.weights = ZeroWeights
  /\ signals.sAB = R1 /\ signals.sBA = <<1, 10>>
  /\ signals.totalScore = <<3, 5>>

\* the scorers that threw
FailedScorers == {f \in {"rAB", "rBA", "rLoc", "rLang", "rTrust"} : signals[f].threw}

\* the signal computed from outcome field f, and its neutral value
SignalOf(f) ==
  CASE f = "rAB" -> signals.sAB [] f = "rBA" -> signals.sBA [] f = "rLoc" -> signals.loc
    [] f = "rLang" -> signals.lang [] OTHER -> signals.trust

NeutralOf(f) == IF f \in {"rAB", "rBA"} THEN R0 ELSE <<1, 2>>

\* C24: when exactly one scorer fails, its signal is the neutral value (0.5
\* for location, language and trust, 0 for a directional aggregate), the
\* other signals are the values their scorers returned, and totalScore is
\* the weighted sum of these five values under the boost policy, clamped.
C24_OneFailureIsNeutral ==
  (signals.done /\ Cardinality(FailedScorers) = 1) =>
    /\ \A f \in {"rAB", "rBA", "rLoc", "rLang", "rTrust"} :
         /\ f \in FailedScorers => SignalOf(f) = NeutralOf(f)
         /\ (f \notin FailedScorers /\ signals[f].def) => SignalOf(f) = signals[f].v
    /\ SameNumber(signals.totalScore,
                  IF FirstRule(signals.sAB, signals.sBA) = 0 THEN Clamp01(ClaimedSum)
                  ELSE Clamp01(RMax(ClaimedSum,
                                    RuleFloor(FirstRule(signals.sAB, signals.sBA)))))

\* C24 witness: only the location scorer threw, and its neutral 0.5 is part
\* of a total that no floor decides
C24_Witness ==
  /\ signals.done /\ FailedScorers = {"rLoc"} /\ signals.loc = <<1, 2>>
  /\ signals.weights = DEFAULT_WEIGHTS
  /\ signals.rAB = Scored(R1) /\ signals.rBA = Scored(R1)
  /\ signals.rLang = Scored(R1) /\ signals.rTrust = Scored(R1)
  /\ signals.totalScore = <<37, 40>>

\* every applicable floor applied as an independent max, in the given order
RECURSIVE FloorsInOrder(_, _, _, _, _)
FloorsInOrder(order, k, total, sA, sB) ==
  IF k > 5 THEN total
  ELSE FloorsInOrder(order, k + 1,
                     IF RuleHolds(order[k], sA, sB) THEN RMax(total, RuleFloor(order[k]))
                     ELSE total,
                     sA, sB)

\* C26: the total of the else-if chain equals the total obtained by applying
\* the floor of every rule whose condition holds as independent max
\* operations, in every order of the five rules.
C26_OrderIndependent ==
  signals.done =>
    \A order \in Permutations(Rules) :
      SameNumber(signals.totalScore,
                 Clamp01(FloorsInOrder(order, 1,
                                       WeightedSum(signals.weights, signals.sAB, signals.sBA,
                                                   signals.loc, signals.lang, signals.trust),
                                       signals.sAB, signals.sBA)))

\* C26 witness: both directions strong and one of them perfect, so the second
\* and the third rule both hold and the 0.7 floor decides the total
C26_Witness ==
  /\ signals.done /\ signals.weights = ZeroWeights
  /\ signals.sAB = R1 /\ signals.sBA = <<4, 5>>
  /\ RuleHolds(2, signals.sAB, signals.sBA) /\ RuleHolds(3, signals.sAB, signals.sBA)
  /\ signals.totalScore = <<7, 10>>

\* the total for other directional scores, the other signals as they are
TotalWith(sA, sB) ==
  TotalScore(signals.weights, sA, sB, signals.loc, signals.lang, signals.trust)

\* C27: with non-negative weights and the other four signals fixed, a larger
\* SA->B (or SB->A) never gives a smaller totalScore.
C27_MonotoneInSemanticSignals ==
  signals.done =>
    \A s \in SignalGrid :
      /\ RLe(signals.sAB, s) => RLe(signals.totalScore, TotalWith(s, signals.sBA))
      /\ RLe(signals.sBA, s) => RLe(signals.totalScore, TotalWith(signals.sAB, s))

\* C27 witness: a weak match scored under the default weights, whose total a
\* larger SA->B raises
C27_Witness ==
  /\ signals.done /\ signals.weights = DEFAULT_WEIGHTS
  /\ signals.sAB = <<1, 10>> /\ signals.sBA = <<1, 2>>
  /\ RLt(signals.totalScore, TotalWith(R1, signals.sBA))

====
